---- MODULE Spec2Model ----
(***************************************************************************)
(* Group-moderation bot: the scheduled_jobs queue and its polling worker   *)
(* (scheduler.py, database.py), the warning ledger and handle_violation    *)
(* (moderation.py, database.py) and the membership gate check_new_member   *)
(* (moderation.py).                                                        *)
(***************************************************************************)
EXTENDS Integers, Sequences, FiniteSets, TLC

\* ------------------------------------------------------------------ bounds
MaxJobs == 1        \* rows ever inserted into scheduled_jobs (SERIAL ids 1..MaxJobs)
MaxTime == 1        \* the clock NOW() runs over 0..MaxTime
MaxFaults == 1      \* store errors, transient platform errors and crashes in one run

\* ------------------------------------------------------------ value domains
Workers == {"w1", "w2"}                 \* scheduler instances polling the same store
Chats == {1}
Targets == {10}                         \* message ids
JobTypes == {"unpin", "unmute", "delete_message"}
Ids == 1..MaxJobs

VARIABLES
    scheduled_jobs,     \* table scheduled_jobs: set of rows
    next_id,            \* the SERIAL sequence of scheduled_jobs.id
    now,                \* NOW()
    pc,                 \* per instance: position in main / process_jobs
    tx_rows,            \* per instance: rows locked by its open get_due_jobs transaction
    jobs_to_run,        \* per instance: the list process_jobs iterates (rest of it)
    hist,               \* history, per job id: what has happened to its calls so far
    api_calls,          \* history: platform calls made by the scheduler
    faults,             \* faults injected so far
    pass_calls,         \* history, per instance: ids of the jobs called in its current pass
    user_warnings,      \* table user_warnings: (chat_id, user_id, warn_type) -> warn_count
    hv,                 \* history: one record per handle_violation run, in order
    wcall,              \* per concurrent add_user_warning call: position, key, result
    group_settings,     \* table group_settings: set of rows
    blacklist,          \* table blacklist: set of (chat_id, term)
    join,               \* history: the last run of check_new_member
    antiword_blacklist, \* table antiword_blacklist: set of (chat_id, word)
    antilink_whitelist, \* table antilink_whitelist: set of (chat_id, domain)
    msg,                \* history: the last run of handle_message
    cmd                 \* the command update being handled, and what its handler did

schedVars == <<scheduled_jobs, next_id, now, pc, tx_rows, jobs_to_run,
               hist, api_calls, faults, pass_calls>>

warnVars == <<user_warnings, hv, wcall>>

joinVars == <<group_settings, blacklist, join>>

msgVars == <<antiword_blacklist, antilink_whitelist, msg>>

cmdVars == <<cmd>>

vars == <<schedVars, warnVars, joinVars, msgVars, cmdVars>>

nonSched == <<warnVars, joinVars, msgVars, cmdVars>>
nonWarn == <<scheduled_jobs, next_id, now, pc, tx_rows, jobs_to_run, hist, api_calls,
             pass_calls, joinVars, antiword_blacklist, antilink_whitelist, cmdVars>>
nonJoin == <<now, pc, tx_rows, jobs_to_run, hist, api_calls, pass_calls, warnVars, msgVars>>
nonMsg == <<scheduled_jobs, next_id, now, pc, tx_rows, jobs_to_run, hist, api_calls,
            pass_calls, blacklist, join, wcall>>

\* --------------------------------------------------- warning ledger: domains
MaxCalls == 3                           \* concurrent add_user_warning calls
MaxViolations == 4                      \* violations handled in one run
WarnLimit == 3                          \* antilink_warn_limit, antiword_warn_limit
Callers == 1..MaxCalls
WarnTypes == {"antilink", "antiword"}
WarnKey(warn_type) == <<1, 7, warn_type>>       \* (chat_id, user_id, warn_type)
WarnKeys == {WarnKey(ty) : ty \in WarnTypes}
NoRows == [k \in {} |-> 0]

WcallIdle == [pc |-> "start", key |-> <<>>, ret |-> 0]

WarnIdle ==
    /\ user_warnings = NoRows
    /\ hv = <<>>
    /\ wcall = [c \in Callers |-> WcallIdle]

\* -------------------------------------------------- membership gate: domains
SIMILARITY_THRESHOLD == 90
Ratios == {89, 90, 100}                 \* values of fuzz.token_set_ratio
TypedTerms == {"Scam", "bob"}           \* terms an admin gives to /addblacklist
Usernames == {"", "Scam"}               \* "": the user has none
FirstNames == {""}                      \* the text checked is the username, if any
NoMessage == "none"                     \* welcome_message NULL
NoSettings == {}
JoinNone ==
    [n |-> 0, chat |-> 1, old_status |-> "left", new_status |-> "left",
     joining |-> FALSE, is_bot |-> FALSE, probe |-> <<>>,
     ratios |-> <<>>, checked |-> <<>>, bans |-> 0, removed |-> FALSE, notice |-> <<>>,
     welcome |-> FALSE, failed |-> "none", raised |-> FALSE]

JoinIdle ==
    /\ group_settings = NoSettings
    /\ blacklist = {}
    /\ join = JoinNone

\* --------------------------------------------------- content filter: domains
\* Strings are sequences of pieces ("https://", "example", ".", "com", ...): a
\* substring is a run of consecutive pieces.
MaxMessages == 1                        \* messages handled in one run
ADMIN_IDS_SET == {9}                    \* config.ADMIN_IDS_SET
Authors == {7, 9}                       \* 7: a member, at times a group admin
MsgNone ==
    [n |-> 0, author |-> 7, reported |-> FALSE, failure |-> "none", text |-> <<>>,
     entities |-> <<>>, text_to_check |-> <<>>, has_link |-> FALSE, violation |-> "none",
     raised |-> FALSE]

MsgIdle ==
    /\ antiword_blacklist = {}
    /\ antilink_whitelist = {}
    /\ msg = MsgNone

\* ------------------------------------------------------- commands: domains
\* No command has arrived yet.
CmdNone ==
    [state |-> "idle", name |-> "start", action |-> "none", arg |-> <<>>,
     user |-> 7, listed |-> FALSE, reported |-> FALSE,
     call |-> "none", duration |-> 0, at |-> 0]

CmdIdle == cmd = CmdNone

\* ------------------------------------------------------------ database.py
JobRow(id, job_type, chat_id, target_id, run_at) ==
    [id |-> id, job_type |-> job_type, chat_id |-> chat_id,
     target_id |-> target_id, run_at |-> run_at]

\* add_job: only 'unpin' is accepted; the row gets the next SERIAL id.
add_job(rows, id, job_type, chat_id, target_id, run_at) ==
    IF job_type \notin {"unpin"}
    THEN rows
    ELSE rows \cup {JobRow(id, job_type, chat_id, target_id, run_at)}

\* get_due_jobs: SELECT ... WHERE run_at <= NOW() AND job_type = 'unpin'
\* FOR UPDATE SKIP LOCKED; `held` are the rows other transactions have locked.
get_due_jobs(rows, t, held) ==
    {j \in rows : j.run_at <= t /\ j.job_type = "unpin" /\ j \notin held}

\* delete_job: DELETE FROM scheduled_jobs WHERE id = %s
delete_job(rows, id) == {j \in rows : j.id # id}

\* ORDER BY run_at: every ordering of the rows with run_at non-decreasing.
OrderByRunAt(S) ==
    {s \in [1..Cardinality(S) -> S] :
        /\ \A i, k \in 1..Cardinality(S) : i # k => s[i] # s[k]
        /\ \A i, k \in 1..Cardinality(S) : i < k => s[i].run_at <= s[k].run_at}

LockedByOthers(w) == UNION {tx_rows[v] : v \in Workers \ {w}}

\* ------------------------------------------------------------ scheduler.py
\* Mutant of Dispatch: the 'unpin' branch tests a misspelt type, so an unpin job
\* falls through to delete_job without a call.
DispatchTypo(job_type) ==
    IF job_type = "unmute" THEN "restrict"
    ELSE IF job_type = "unpin_message" THEN "unpin"
    ELSE "none"

\* Mutant of Dispatch: the last branch is an else, any other type is unpinned.
DispatchElseUnpin(job_type) ==
    IF job_type = "unmute" THEN "restrict" ELSE "unpin"

\* process_jobs, lines 39-60: the platform call made for a job type ("none": no
\* branch matches, control falls through to delete_job).
Dispatch(job_type) ==
    IF job_type = "unmute" THEN "restrict"
    ELSE IF job_type = "unpin" THEN "unpin"
    ELSE "none"

\* Mutant of CallFor: chat_id and message_id passed the wrong way round.
CallForSwapped(job) ==
    [id |-> job.id, op |-> Dispatch(job.job_type),
     chat_id |-> job.target_id, target_id |-> job.chat_id]

\* process_jobs, lines 33-36 and 42-60: the call and its arguments.
CallFor(job) ==
    [id |-> job.id, op |-> Dispatch(job.job_type),
     chat_id |-> job.chat_id, target_id |-> job.target_id]

Outcomes == {"ok", "refused", "transient"}   \* returns / Forbidden, BadRequest / other

\* Mutant of OnOutcome: the job is deleted whatever the call did.
OnOutcomeDeleteAlways(outcome) ==
    IF outcome = "refused" THEN "del_refused" ELSE "del_ok"

\* Mutant of OnOutcome: Forbidden/BadRequest handled like any other error.
OnOutcomeRetryRefused(outcome) ==
    IF outcome = "ok" THEN "del_ok" ELSE "next"

\* Mutant of OnOutcome: a call that failed with another error is made again at once.
OnOutcomeRetryNow(outcome) ==
    IF outcome = "ok" THEN "del_ok"
    ELSE IF outcome = "refused" THEN "del_refused"
    ELSE "loop"

\* Mutant of OnOutcome: an error other than Forbidden/BadRequest ends the pass.
OnOutcomeEndPass(outcome) ==
    IF outcome = "ok" THEN "del_ok"
    ELSE IF outcome = "refused" THEN "del_refused"
    ELSE "sleep"

\* process_jobs, lines 62-74: where control goes after the call.
OnOutcome(outcome) ==
    IF outcome = "ok" THEN "del_ok"                 \* line 63
    ELSE IF outcome = "refused" THEN "del_refused"  \* line 70
    ELSE "next"                                     \* line 74: logged, not deleted

\* End of one loop iteration: the next job, or back to main's sleep.
Advance(w) ==
    /\ jobs_to_run' = [jobs_to_run EXCEPT ![w] = Tail(@)]
    /\ pc' = [pc EXCEPT ![w] = IF Tail(jobs_to_run[w]) = <<>> THEN "sleep" ELSE "loop"]

\* The pass ends early (outer except, line 76) or the process restarts.
Abandon(w) ==
    /\ jobs_to_run' = [jobs_to_run EXCEPT ![w] = <<>>]
    /\ pc' = [pc EXCEPT ![w] = "sleep"]

Fault == faults < MaxFaults /\ faults' = faults + 1
NoFault == faults' = faults

\* History tags of a job id: a call returned "ok" / was "refused" / failed
\* "transient"; the job's type: no branch of process_jobs matched it, no call made; "undeleted": a fault hit between a call that returned or was refused
\* and the row's deletion; "again": a call was made after such a fault; "retried":
\* get_due_jobs returned the row after a call for it had failed "transient".
Mark(i, tags) == hist' = [hist EXCEPT ![i] = @ \cup tags]
Undeleted(w) ==
    IF pc[w] \in {"del_ok", "del_refused"}
    THEN Mark(Head(jobs_to_run[w]).id, {"undeleted"})
    ELSE UNCHANGED hist

SchedInit ==
    /\ scheduled_jobs = {}
    /\ next_id = 1
    /\ now = 0
    /\ pc = [w \in Workers |-> "sleep"]
    /\ tx_rows = [w \in Workers |-> {}]
    /\ jobs_to_run = [w \in Workers |-> <<>>]
    /\ hist = [i \in Ids |-> {}]
    /\ api_calls = {}
    /\ faults = 0
    /\ pass_calls = [w \in Workers |-> <<>>]
    /\ WarnIdle
    /\ JoinIdle
    /\ MsgIdle
    /\ CmdIdle

\* Time passes.
Tick ==
    /\ now < MaxTime
    /\ now' = now + 1
    /\ UNCHANGED <<scheduled_jobs, next_id, pc, tx_rows, jobs_to_run,
                   hist, api_calls, faults, pass_calls>>
    /\ UNCHANGED nonSched

\* The two callers of add_job: pin_command ('unpin', now + duration) and
\* check_new_member ('delete_message', now + 1 minute).
AddJob ==
    /\ next_id <= MaxJobs
    /\ \E job_type \in {"unpin", "delete_message"}, c \in Chats, t \in Targets :
          /\ scheduled_jobs' = add_job(scheduled_jobs, next_id, job_type, c, t, now + 1)
          /\ next_id' = IF scheduled_jobs' = scheduled_jobs THEN next_id ELSE next_id + 1
    /\ UNCHANGED <<now, pc, tx_rows, jobs_to_run, hist, api_calls, faults, pass_calls>>
    /\ UNCHANGED nonSched

\* process_jobs line 26, get_due_jobs lines 184-188: the SELECT runs and locks the
\* rows it returns; or the store fails and the pass ends with nothing to do.
Poll(w) ==
    /\ pc[w] = "sleep"
    /\ \/ /\ tx_rows' = [tx_rows EXCEPT
                           ![w] = get_due_jobs(scheduled_jobs, now, LockedByOthers(w))]
          /\ pc' = [pc EXCEPT ![w] = "select"]
          /\ hist' = [i \in DOMAIN hist |->
                        IF "transient" \in hist[i] /\ i \in {j.id : j \in tx_rows'[w]}
                        THEN hist[i] \cup {"retried"} ELSE hist[i]]
          /\ pass_calls' = [pass_calls EXCEPT ![w] = <<>>]
          /\ NoFault
       \/ /\ Fault
          /\ UNCHANGED <<tx_rows, pc, hist, pass_calls>>
    /\ UNCHANGED <<scheduled_jobs, next_id, now, jobs_to_run, api_calls>>
    /\ UNCHANGED nonSched

\* get_due_jobs lines 189-190: commit releases the row locks and the rows are
\* returned; process_jobs lines 27-32 returns on an empty list, else starts the loop.
Commit(w) ==
    /\ pc[w] = "select"
    /\ \E s \in OrderByRunAt(tx_rows[w]) :
          /\ jobs_to_run' = [jobs_to_run EXCEPT ![w] = s]
          /\ pc' = [pc EXCEPT ![w] = IF s = <<>> THEN "sleep" ELSE "loop"]
    /\ tx_rows' = [tx_rows EXCEPT ![w] = {}]
    /\ UNCHANGED <<scheduled_jobs, next_id, now, hist, api_calls, faults, pass_calls>>
    /\ UNCHANGED nonSched

\* process_jobs lines 33-74: the platform call for the job at the head of the list.
RunJob(w) ==
    /\ pc[w] = "loop"
    /\ LET job == Head(jobs_to_run[w]) IN
       IF Dispatch(job.job_type) = "none"
       THEN /\ pc' = [pc EXCEPT ![w] = "del_ok"]
            /\ Mark(job.id, {job.job_type})
            /\ UNCHANGED <<jobs_to_run, api_calls, faults, pass_calls>>
       ELSE \E outcome \in Outcomes :
            /\ api_calls' = api_calls \cup {CallFor(job)}
            /\ pass_calls' = [pass_calls EXCEPT ![w] = Append(@, job.id)]
            /\ Mark(job.id, {outcome} \cup
                    (IF "undeleted" \in hist[job.id] THEN {"again"} ELSE {}))
            /\ IF outcome = "transient" THEN Fault ELSE NoFault
            /\ IF OnOutcome(outcome) = "next"
               THEN Advance(w)
               ELSE /\ pc' = [pc EXCEPT ![w] = OnOutcome(outcome)]
                    /\ UNCHANGED jobs_to_run
    /\ UNCHANGED <<scheduled_jobs, next_id, now, tx_rows>>
    /\ UNCHANGED nonSched

\* process_jobs line 63: delete_job after a successful call. A store error is
\* swallowed by delete_job (line 206) or, raised by get_db_connection, caught at
\* line 71: either way the row stays and the loop goes on.
DeleteAfterRun(w) ==
    /\ pc[w] = "del_ok"
    /\ LET job == Head(jobs_to_run[w]) IN
       \/ /\ job \notin LockedByOthers(w)
          /\ scheduled_jobs' = delete_job(scheduled_jobs, job.id)
          /\ NoFault
          /\ UNCHANGED hist
       \/ /\ Fault
          /\ Undeleted(w)
          /\ UNCHANGED scheduled_jobs
    /\ Advance(w)
    /\ UNCHANGED <<next_id, now, tx_rows, api_calls, pass_calls>>
    /\ UNCHANGED nonSched

\* process_jobs line 70: delete_job after Forbidden/BadRequest. An error swallowed
\* by delete_job leaves the row and the loop goes on; one raised by
\* get_db_connection leaves the handler and ends the pass (line 76).
DeleteAfterRefusal(w) ==
    /\ pc[w] = "del_refused"
    /\ LET job == Head(jobs_to_run[w]) IN
       \/ /\ job \notin LockedByOthers(w)
          /\ scheduled_jobs' = delete_job(scheduled_jobs, job.id)
          /\ NoFault
          /\ UNCHANGED hist
          /\ Advance(w)
       \/ /\ Fault
          /\ Undeleted(w)
          /\ UNCHANGED scheduled_jobs
          /\ Advance(w)
       \/ /\ Fault
          /\ Undeleted(w)
          /\ UNCHANGED scheduled_jobs
          /\ Abandon(w)
    /\ UNCHANGED <<next_id, now, tx_rows, api_calls, pass_calls>>
    /\ UNCHANGED nonSched

\* The instance dies mid-pass and is restarted: its list and its open
\* transaction are gone, the store is as it was.
Crash(w) ==
    /\ pc[w] # "sleep"
    /\ Fault
    /\ Undeleted(w)
    /\ Abandon(w)
    /\ tx_rows' = [tx_rows EXCEPT ![w] = {}]
    /\ UNCHANGED <<scheduled_jobs, next_id, now, api_calls, pass_calls>>
    /\ UNCHANGED nonSched

SchedNext ==
    \/ Tick
    \/ AddJob
    \/ \E w \in Workers : Poll(w)
    \/ \E w \in Workers : Commit(w)
    \/ \E w \in Workers : RunJob(w)
    \/ \E w \in Workers : DeleteAfterRun(w)
    \/ \E w \in Workers : DeleteAfterRefusal(w)
    \/ \E w \in Workers : Crash(w)

SchedSpec == SchedInit /\ [][SchedNext]_vars

\* Each instance is its own process running main's loop (lines 87-93): a step it
\* can take is eventually taken. Faults are finitely many (MaxFaults).
SchedFair ==
    \A w \in Workers :
        /\ WF_vars(Poll(w))
        /\ WF_vars(Commit(w))
        /\ WF_vars(RunJob(w))
        /\ WF_vars(DeleteAfterRun(w))
        /\ WF_vars(DeleteAfterRefusal(w))

SchedLive == SchedSpec /\ SchedFair

\* ------------------------------------------------------- scheduler claims
RowIds == {j.id : j \in scheduled_jobs}
DueRow(i) == \E j \in scheduled_jobs : j.id = i /\ j.run_at <= now
Claimed(w) ==
    {j.id : j \in tx_rows[w]} \cup {jobs_to_run[w][k].id : k \in DOMAIN jobs_to_run[w]}
Called(i) == hist[i] \cap Outcomes # {}
\* An instance stands between the call for job i and the deletion of its row.
Deleting(i) ==
    \E w \in Workers : pc[w] \in {"del_ok", "del_refused"} /\ Head(jobs_to_run[w]).id = i

\* C1: at-least-once execution. A row leaves scheduled_jobs only when an instance
\* that has called its platform action deletes it; a crash, a failed deletion or any
\* other fault leaves the table as it was; and every due row is in the end called
\* and removed, so that no scheduled action is lost.
C1_RemovedOnlyAfterAttempt ==
    [][\A i \in DOMAIN hist : (i \in RowIds /\ i \notin RowIds') => (Called(i) /\ Deleting(i))]_vars
C1_FaultKeepsRows ==
    [][faults' # faults => scheduled_jobs' = scheduled_jobs]_vars
C1_NeverLost ==
    []<>(\A i \in DOMAIN hist : ~DueRow(i))
C1_AtLeastOnce ==
    /\ C1_RemovedOnlyAfterAttempt
    /\ C1_FaultKeepsRows
    /\ C1_NeverLost
\* A fault came between the call and the deletion, the call was made again and the
\* row is gone.
C1_Witness ==
    \E i \in DOMAIN hist : {"undeleted", "again"} \subseteq hist[i] /\ i \notin RowIds /\ i < next_id

\* C2: a job one instance has claimed (it is in its open transaction or in the
\* list it is processing) is not claimed by the other instance at the same time.
C2_ClaimedByOne ==
    \A v, w \in Workers : v # w => Claimed(v) \cap Claimed(w) = {}

\* C7: a call that fails with an error other than Forbidden/BadRequest leaves
\* scheduled_jobs as it is, a row is deleted only on the strength of a call that
\* returned or was refused, and the next get_due_jobs that runs while no other
\* transaction holds the row returns it again.
C7_FailedCallKeepsTable ==
    [][\A i \in DOMAIN hist : ("transient" \in hist'[i] /\ "transient" \notin hist[i])
                        => scheduled_jobs' = scheduled_jobs]_vars
C7_DeletedOnlyWhenSettled ==
    [][\A i \in DOMAIN hist : (i \in RowIds /\ i \notin RowIds')
                        => hist[i] \cap {"ok", "refused"} # {}]_vars
C7_ClaimedAgain ==
    [][\A w \in Workers : (pc[w] = "sleep" /\ pc'[w] = "select") =>
          \A j \in scheduled_jobs :
              ("transient" \in hist[j.id] /\ j \notin LockedByOthers(w)) => j \in tx_rows'[w]]_vars
C7_TransientRetried ==
    /\ C7_FailedCallKeepsTable
    /\ C7_DeletedOnlyWhenSettled
    /\ C7_ClaimedAgain
C7_Witness ==
    \E i \in DOMAIN hist : "retried" \in hist[i] /\ hist[i] \cap {"ok", "refused"} = {} /\ i \in RowIds

\* C8: after a call refused with Forbidden or BadRequest the instance deletes the
\* job's row (unless a fault hits that deletion, the case of C1), and a row that is
\* gone never comes back and is never returned by a later get_due_jobs, so no later
\* cycle attempts the job.
C8_RefusedRowDeleted ==
    \A i \in DOMAIN hist :
        ("refused" \in hist[i] /\ "undeleted" \notin hist[i]) => (Deleting(i) \/ i \notin RowIds)
C8_GoneStaysGone ==
    [][/\ \A i \in DOMAIN hist : (i < next_id /\ i \notin RowIds) => i \notin RowIds'
       /\ \A w \in Workers : (pc[w] = "sleep" /\ pc'[w] = "select")
                                => tx_rows'[w] \subseteq scheduled_jobs]_vars
C8_PermanentFailureDeletes ==
    /\ []C8_RefusedRowDeleted
    /\ C8_GoneStaysGone
C8_Witness ==
    \E i \in DOMAIN hist : hist[i] = {"refused"} /\ i \notin RowIds /\ ~Deleting(i)

\* C9: a due unpin row is returned by the next get_due_jobs that runs while no other
\* transaction holds it and its action is in the end called; the call is
\* unpin(chat_id, target_id) of that row; and once the call has returned the row is
\* deleted (unless a fault hits that deletion, the case of C1).
C9_PickedUp ==
    [][\A w \in Workers : (pc[w] = "sleep" /\ pc'[w] = "select") =>
          \A j \in scheduled_jobs :
              (j.job_type = "unpin" /\ j.run_at <= now /\ j \notin LockedByOthers(w))
                  => j \in tx_rows'[w]]_vars
C9_UnpinCalled ==
    [][\A c \in api_calls' \ api_calls :
          \E w \in Workers :
              /\ pc[w] = "loop"
              /\ Head(jobs_to_run[w]).job_type = "unpin"
              /\ c = [id |-> Head(jobs_to_run[w]).id, op |-> "unpin",
                      chat_id |-> Head(jobs_to_run[w]).chat_id,
                      target_id |-> Head(jobs_to_run[w]).target_id]]_vars
C9_DoneRowGone ==
    \A i \in DOMAIN hist :
        ("ok" \in hist[i] /\ "undeleted" \notin hist[i]) => (Deleting(i) \/ i \notin RowIds)
C9_EventuallyCalled ==
    []<>(\A i \in DOMAIN hist : DueRow(i) => Called(i))
C9_DueUnpinRuns ==
    /\ C9_PickedUp
    /\ C9_UnpinCalled
    /\ []C9_DoneRowGone
    /\ C9_EventuallyCalled
C9_Witness ==
    \E i \in DOMAIN hist :
        /\ hist[i] = {"ok"} /\ i \notin RowIds /\ ~Deleting(i)
        /\ \E c \in Chats, t \in Targets :
              [id |-> i, op |-> "unpin", chat_id |-> c, target_id |-> t] \in api_calls

\* ------------------------------------------------ the claim step on any table
\* scheduled_jobs.job_type is free TEXT (init_db) and process_jobs dispatches on
\* 'unmute' rows, which add_job never writes: the store may hold rows of any type,
\* written by another deployment. The instances start on such a table.
StoredIds == 1..(MaxJobs + 1)
StoredTables ==
    {t \in SUBSET {JobRow(i, ty, c, tg, r) : i \in StoredIds, ty \in JobTypes,
                                             c \in Chats, tg \in Targets, r \in {0, MaxTime + 1}} :
        \A a, b \in t : a.id = b.id => a = b}

ClaimInit ==
    /\ scheduled_jobs \in StoredTables
    /\ next_id = MaxJobs + 2
    /\ now = 0
    /\ pc = [w \in Workers |-> "sleep"]
    /\ tx_rows = [w \in Workers |-> {}]
    /\ jobs_to_run = [w \in Workers |-> <<>>]
    /\ hist = [i \in StoredIds |-> {}]
    /\ api_calls = {}
    /\ faults = 0
    /\ pass_calls = [w \in Workers |-> <<>>]
    /\ WarnIdle
    /\ JoinIdle
    /\ MsgIdle
    /\ CmdIdle

ClaimNext ==
    \/ Tick
    \/ \E w \in Workers : Poll(w)
    \/ \E w \in Workers : Commit(w)
    \/ \E w \in Workers : RunJob(w)
    \/ \E w \in Workers : DeleteAfterRun(w)
    \/ \E w \in Workers : DeleteAfterRefusal(w)
    \/ \E w \in Workers : Crash(w)

ClaimSpec == ClaimInit /\ [][ClaimNext]_vars

ClaimLive == ClaimSpec /\ SchedFair

\* C11: a row of type delete_message leaves scheduled_jobs only when the
\* delete-message call for its (chat_id, target_id) has been made, and for every due
\* row of that type the call is in the end made.
C11_CalledBeforeRemoved ==
    [][\A j \in scheduled_jobs :
          (j.job_type = "delete_message" /\ j \notin scheduled_jobs')
              => [id |-> j.id, op |-> "delete_message",
                  chat_id |-> j.chat_id, target_id |-> j.target_id] \in api_calls]_vars
C11_DueIsCalled ==
    []<>(\A j \in scheduled_jobs :
            (j.job_type = "delete_message" /\ j.run_at <= now)
                => [id |-> j.id, op |-> "delete_message",
                    chat_id |-> j.chat_id, target_id |-> j.target_id] \in api_calls)
PassIds == {1, 2}
PassTypes == JobTypes \cup {"other"}
PassTables ==
    {t \in SUBSET {JobRow(i, ty, c, tg, 0) : i \in PassIds, ty \in PassTypes,
                                             c \in Chats, tg \in Targets} :
        t # {} /\ \A a, b \in t : a.id = b.id => a = b}

PassInit ==
    /\ scheduled_jobs \in PassTables
    /\ next_id = 3
    /\ now = 0
    /\ jobs_to_run \in {[w \in Workers |-> IF w = "w1" THEN s ELSE <<>>] :
                           s \in OrderByRunAt(scheduled_jobs)}
    /\ pc = [w \in Workers |-> IF jobs_to_run[w] = <<>> THEN "sleep" ELSE "loop"]
    /\ tx_rows = [w \in Workers |-> {}]
    /\ hist = [i \in PassIds |-> {}]
    /\ api_calls = {}
    /\ faults = 0
    /\ pass_calls = [w \in Workers |-> <<>>]
    /\ WarnIdle
    /\ JoinIdle
    /\ MsgIdle
    /\ CmdIdle

PassSpec == PassInit /\ [][ClaimNext]_vars

\* C13: a job in an instance's list whose type is none of unpin, unmute,
\* delete_message gets no platform call: the instance goes straight to delete_job,
\* which removes the row (unless a fault hits that deletion, the case of C1); no
\* call is ever made for it and the row, once gone, does not come back.
KnownTypes == {"unpin", "unmute", "delete_message"}
C13_NoCallThenDelete ==
    [][\A w \in Workers :
          (pc[w] = "loop" /\ Head(jobs_to_run[w]).job_type \notin KnownTypes /\ pc'[w] # "loop")
              => \/ faults' # faults
                 \/ /\ pc'[w] = "del_ok"
                    /\ api_calls' = api_calls
                    /\ pass_calls' = pass_calls
                    /\ jobs_to_run' = jobs_to_run]_vars
C13_RowDeleted ==
    [][\A w \in Workers :
          (/\ pc[w] = "del_ok" /\ Head(jobs_to_run[w]).job_type \notin KnownTypes
           /\ pc'[w] # "del_ok" /\ faults' = faults)
              => Head(jobs_to_run[w]).id \notin RowIds']_vars
C13_NeverCalled ==
    \A i \in DOMAIN hist : "other" \in hist[i] => ~Called(i)
C13_StaysGone ==
    [][\A i \in DOMAIN hist : (i < next_id /\ i \notin RowIds) => i \notin RowIds']_vars
C13_UnknownTypeDiscarded ==
    /\ C13_NoCallThenDelete
    /\ C13_RowDeleted
    /\ []C13_NeverCalled
    /\ C13_StaysGone
\* A job of type "other" went through the loop: no call was made, its row is gone.
C13_Witness ==
    \E i \in DOMAIN hist :
        /\ "other" \in hist[i]
        /\ ~Called(i)
        /\ i \notin RowIds
        /\ ~Deleting(i)

\* C14: in one pass of process_jobs no job is called twice: the ids of the jobs an
\* instance has called since its last get_due_jobs are all different.
C14_OncePerPass ==
    \A w \in Workers :
        \A a, b \in DOMAIN pass_calls[w] : a # b => pass_calls[w][a] # pass_calls[w][b]
\* An instance has ended a pass in which it called two jobs, the first with success.
C14_Witness ==
    \E w \in Workers :
        /\ pc[w] = "sleep"
        /\ Len(pass_calls[w]) = 2
        /\ "ok" \in hist[pass_calls[w][1]]
        /\ pass_calls[w][1] \notin RowIds

\* ------------------------------------------------- database.py: user_warnings
\* get_user_warnings: the stored count, 0 when there is no row.
get_user_warnings(rows, k) == IF k \in DOMAIN rows THEN rows[k] ELSE 0

\* Mutant of upsert_count: ON CONFLICT DO UPDATE SET warn_count = EXCLUDED.warn_count + 1
\* (the proposed row's 1, not the stored count).
upsert_excluded(rows, k) == IF k \in DOMAIN rows THEN 2 ELSE 1

\* add_user_warning, lines 405-411: INSERT ... VALUES (.., 1) ON CONFLICT DO UPDATE
\* SET warn_count = user_warnings.warn_count + 1 RETURNING warn_count.
upsert_count(rows, k) == IF k \in DOMAIN rows THEN rows[k] + 1 ELSE 1

\* The table after the statement commits.
put_warning(rows, k, n) == [x \in DOMAIN rows \cup {k} |-> IF x = k THEN n ELSE rows[x]]

\* Mutant of reset_user_warnings: UPDATE user_warnings SET warn_count = 0.
reset_to_zero(rows, k) == [x \in DOMAIN rows |-> IF x = k THEN 0 ELSE rows[x]]

\* reset_user_warnings: DELETE FROM user_warnings WHERE (chat_id, user_id, warn_type) = k
reset_user_warnings(rows, k) == [x \in DOMAIN rows \ {k} |-> rows[x]]

\* ------------------------------------- concurrent calls of add_user_warning
\* The statement runs (lines 414-416): it waits while another transaction holds
\* the key's row, then locks the row and computes the count it will return; or
\* the store fails: the call returns -1 (line 422).
W_Execute(c) ==
    /\ wcall[c].pc = "start"
    /\ \/ \E k \in WarnKeys :
             /\ \A d \in Callers : ~(wcall[d].pc = "exec" /\ wcall[d].key = k)
             /\ wcall' = [wcall EXCEPT ![c] =
                              [pc |-> "exec", key |-> k, ret |-> upsert_count(user_warnings, k)]]
             /\ NoFault
       \/ \E k \in WarnKeys :
             /\ Fault
             /\ wcall' = [wcall EXCEPT ![c] = [pc |-> "done", key |-> k, ret |-> -1]]
    /\ UNCHANGED <<user_warnings, hv, msg>>
    /\ UNCHANGED nonWarn

\* conn.commit() (line 417): the row is stored with the new count and unlocked,
\* the count is returned.
W_Commit(c) ==
    /\ wcall[c].pc = "exec"
    /\ user_warnings' = put_warning(user_warnings, wcall[c].key, wcall[c].ret)
    /\ wcall' = [wcall EXCEPT ![c].pc = "done"]
    /\ UNCHANGED <<hv, faults, msg>>
    /\ UNCHANGED nonWarn

RaceNext ==
    \/ \E c \in Callers : W_Execute(c)
    \/ \E c \in Callers : W_Commit(c)

RaceSpec == SchedInit /\ [][RaceNext]_vars

\* C4: the add_user_warning calls that have returned a count for a key have
\* returned the distinct values 1..N, N their number, and the stored counter of
\* the key is N (no row when N = 0): no concurrent update is lost.
Returned(k) == {c \in Callers : wcall[c].pc = "done" /\ wcall[c].key = k /\ wcall[c].ret # -1}
C4_NoLostUpdate ==
    \A k \in WarnKeys :
        /\ get_user_warnings(user_warnings, k) = Cardinality(Returned(k))
        /\ {wcall[c].ret : c \in Returned(k)} = 1..Cardinality(Returned(k))
C4_Witness ==
    \E k \in WarnKeys :
        /\ Cardinality(Returned(k)) = MaxCalls
        /\ user_warnings[k] = MaxCalls

\* ------------------------------------------- moderation.py: handle_violation
\* Mutant of LimitReached: the mute waits until the limit is exceeded.
LimitExceeded(n, limit) == n > limit

LimitReachedEarly(n, limit) == n + 1 >= limit

\* handle_violation line 55: if new_warn_count >= warn_limit.
LimitReached(n, limit) == n >= limit

\* The notices handle_violation sends (lines 72-77 and 85-91).
MuteNotice == <<"mute">>
WarnNotice(n, limit) == <<"warn", n, limit>>

\* handle_violation lines 41-45: a failed update.message.delete() is caught and
\* logged, and the run goes on with the warning.
OnDeleteAbort(deleted) == IF deleted THEN "continue" ELSE "return"

OnDelete(deleted) == "continue"

\* Mutant of OnRestrictFailure: the counter is reset although the restrict failed.
ResetAnyway(rows, k) == reset_user_warnings(rows, k)

\* handle_violation lines 59-82: restrict_chat_member is the first call of the try
\* block; when it fails the handler (line 81) only logs, line 69 is not reached and
\* the table stays as add_user_warning left it.
OnRestrictFailure(rows, k) == rows

\* One run of handle_violation for a message of user 7 in chat 1, from the first
\* line to its return. `deleted`: whether update.message.delete() worked (a failure
\* is logged at line 45 and the run goes on). The run is recorded in hv: the count
\* add_user_warning returned, the restrict calls made, the notice sent.
handle_violation(warn_type) ==
    /\ Len(hv) < MaxViolations
    /\ \E deleted \in BOOLEAN :
       LET k == WarnKey(warn_type)
           new_warn_count == upsert_count(user_warnings, k)
           counted == put_warning(user_warnings, k, new_warn_count)
           Run(n, restricts, notice, raised) ==
               hv' = Append(hv, [warn_type |-> warn_type, deleted |-> deleted, new |-> n,
                                 restricts |-> restricts, notice |-> notice,
                                 raised |-> raised])
       IN
       IF OnDelete(deleted) = "return"
       THEN NoFault /\ UNCHANGED user_warnings /\ Run(-1, 0, <<>>, FALSE)
       ELSE
       \/ \* line 48: add_user_warning returns -1 (return at line 52), or cannot
          \* connect and its error leaves the handler
          /\ Fault
          /\ UNCHANGED user_warnings
          /\ \E raised \in BOOLEAN : Run(-1, 0, <<>>, raised)
       \/ \* lines 55-79: limit reached, every call works
          /\ LimitReached(new_warn_count, WarnLimit)
          /\ NoFault
          /\ user_warnings' = reset_user_warnings(counted, k)
          /\ Run(new_warn_count, 1, MuteNotice, FALSE)
       \/ \* line 61: restrict_chat_member fails, caught at line 81
          /\ LimitReached(new_warn_count, WarnLimit)
          /\ Fault
          /\ user_warnings' = OnRestrictFailure(counted, k)
          /\ Run(new_warn_count, 0, <<>>, FALSE)
       \/ \* line 69: reset_user_warnings fails; swallowed there (the notice is
          \* sent) or raised by get_db_connection (caught at line 81)
          /\ LimitReached(new_warn_count, WarnLimit)
          /\ Fault
          /\ user_warnings' = counted
          /\ \E notice \in {MuteNotice, <<>>} : Run(new_warn_count, 1, notice, FALSE)
       \/ \* line 73: the mute notice fails, caught at line 81
          /\ LimitReached(new_warn_count, WarnLimit)
          /\ Fault
          /\ user_warnings' = reset_user_warnings(counted, k)
          /\ Run(new_warn_count, 1, <<>>, FALSE)
       \/ \* lines 83-94: below the limit, the warning is sent
          /\ ~LimitReached(new_warn_count, WarnLimit)
          /\ NoFault
          /\ user_warnings' = counted
          /\ Run(new_warn_count, 0, WarnNotice(new_warn_count, WarnLimit), FALSE)
       \/ \* line 87: the warning notice fails and the error leaves the handler
          /\ ~LimitReached(new_warn_count, WarnLimit)
          /\ Fault
          /\ user_warnings' = counted
          /\ Run(new_warn_count, 0, <<>>, TRUE)
    /\ UNCHANGED wcall
    /\ UNCHANGED nonWarn

\* Violations of one user handled one after another.
ViolNext == \E warn_type \in WarnTypes : handle_violation(warn_type) /\ UNCHANGED msg

ViolSpec == SchedInit /\ [][ViolNext]_vars

\* The runs recorded for one violation type, in order.
Handled(warn_type) == SelectSeq(hv, LAMBDA r : r.warn_type = warn_type)

\* C3: a run of handle_violation in which no call fails raises the stored counter
\* of its key by exactly 1 and sends the warning n/limit while the new count is below
\* the limit; the run that brings it to the limit makes exactly one restrict call and
\* leaves the key without a row. Over violations handled one after another without a
\* fault, the n-th of a type is a warning (n mod limit)/limit, or the mute when the
\* limit divides n, and the stored counter is n mod limit, with no row when this is 0.
C3_RunCountsOne ==
    [][(Len(hv') = Len(hv) + 1 /\ faults' = faults) =>
          LET r == hv'[Len(hv')]
              k == WarnKey(r.warn_type)
              old == get_user_warnings(user_warnings, k)
          IN /\ r.new = old + 1
             /\ IF old + 1 < WarnLimit
                THEN /\ k \in DOMAIN user_warnings'
                     /\ user_warnings'[k] = old + 1
                     /\ r.restricts = 0
                     /\ r.notice = <<"warn", old + 1, WarnLimit>>
                ELSE /\ k \notin DOMAIN user_warnings'
                     /\ r.restricts = 1
                     /\ r.notice = <<"mute">>
             /\ \A x \in WarnKeys \ {k} :
                   /\ x \in DOMAIN user_warnings' <=> x \in DOMAIN user_warnings
                   /\ get_user_warnings(user_warnings', x) = get_user_warnings(user_warnings, x)]_vars
C3_Ledger ==
    faults = 0 =>
        \A ty \in WarnTypes :
            LET s == Handled(ty) IN
            /\ get_user_warnings(user_warnings, WarnKey(ty)) = Len(s) % WarnLimit
            /\ WarnKey(ty) \in DOMAIN user_warnings <=> Len(s) % WarnLimit # 0
            /\ \A n \in 1..Len(s) :
                  IF n % WarnLimit = 0
                  THEN s[n].restricts = 1 /\ s[n].notice = <<"mute">>
                  ELSE s[n].restricts = 0 /\ s[n].notice = <<"warn", n % WarnLimit, WarnLimit>>
C3_WarnThenMute ==
    /\ C3_RunCountsOne
    /\ []C3_Ledger
\* Three violations of one type handled without a fault: the third muted the user
\* and the key has no row.
C3_Witness ==
    /\ faults = 0
    /\ hv # <<>>
    /\ LET r == hv[Len(hv)] IN
          /\ Len(Handled(r.warn_type)) = WarnLimit
          /\ r.new = WarnLimit
          /\ r.restricts = 1
          /\ WarnKey(r.warn_type) \notin DOMAIN user_warnings

\* ------------------------------ database.py: group_settings and blacklist
\* str.lower() on the strings of the model.
Lower(str) ==
    CASE str = "Scam" -> "scam"
      [] str = "Al" -> "al"
      [] str = "Spam" -> "spam"
      [] str = "Example" -> "example"
      [] str = "WWW." -> "www."
      [] str = "HTTP://" -> "http://"
      [] str = "HTTP:" -> "http:"
      [] OTHER -> str

\* get_group_settings, lines 269-277: the defaults.
DefaultSettings ==
    [antibot_enabled |-> FALSE, antilink_enabled |-> FALSE, antiword_enabled |-> FALSE,
     antilink_warn_limit |-> WarnLimit, antiword_warn_limit |-> WarnLimit,
     welcome_enabled |-> FALSE, welcome_message |-> NoMessage]

\* A row of group_settings: the key chat_id and the columns.
NewRow(chat_id) ==
    [f \in DOMAIN DefaultSettings \cup {"chat_id"} |->
        IF f = "chat_id" THEN chat_id ELSE DefaultSettings[f]]

\* Mutant of get_group_settings: a copy taken at start-up, when the table was empty.
StartupSettings(rows, chat_id) == DefaultSettings

\* get_group_settings: SELECT * WHERE chat_id = ..; fetchone; the row's columns
\* over the defaults, the defaults when there is no row.
get_group_settings(rows, chat_id) ==
    IF \E r \in rows : r.chat_id = chat_id
    THEN LET result == CHOOSE r \in rows : r.chat_id = chat_id
         IN [f \in DOMAIN DefaultSettings |-> result[f]]
    ELSE DefaultSettings

\* Mutant of upsert_setting: a plain INSERT into a table without the key.
insert_setting(rows, chat_id, setting, value) ==
    rows \cup {[NewRow(chat_id) EXCEPT ![setting] = value]}

\* INSERT (chat_id, setting) VALUES (..) ON CONFLICT (chat_id) DO UPDATE
\* SET setting = EXCLUDED.setting; chat_id is the table's PRIMARY KEY and the
\* columns not named take their defaults on insert.
upsert_setting(rows, chat_id, setting, value) ==
    IF \E r \in rows : r.chat_id = chat_id
    THEN {IF r.chat_id = chat_id THEN [r EXCEPT ![setting] = value] ELSE r : r \in rows}
    ELSE rows \cup {[NewRow(chat_id) EXCEPT ![setting] = value]}

\* set_group_setting: the upsert, for an allowed column name only.
set_group_setting(rows, chat_id, setting, value) ==
    IF setting \notin {"antibot_enabled", "antilink_enabled", "antiword_enabled",
                       "antilink_warn_limit", "antiword_warn_limit", "welcome_enabled"}
    THEN rows
    ELSE upsert_setting(rows, chat_id, setting, value)

\* set_welcome_message: the same upsert on welcome_message.
set_welcome_message(rows, chat_id, message) ==
    upsert_setting(rows, chat_id, "welcome_message", message)

\* Mutant of add_to_blacklist: the term is stored as given.
add_as_given(rows, chat_id, term) == rows \cup {<<chat_id, term>>}

\* add_to_blacklist: INSERT (chat_id, term.lower()) ON CONFLICT DO NOTHING.
add_to_blacklist(rows, chat_id, term) == rows \cup {<<chat_id, Lower(term)>>}

\* What add_to_blacklist returns: cur.rowcount > 0, a row was inserted.
add_to_blacklist_result(rows, chat_id, term) ==
    add_to_blacklist(rows, chat_id, term) # rows

\* remove_from_blacklist: DELETE WHERE chat_id = .. AND term = term.lower().
remove_from_blacklist(rows, chat_id, term) == rows \ {<<chat_id, Lower(term)>>}

\* get_blacklist: the set of the group's terms.
get_blacklist(rows, chat_id) == {r[2] : r \in {x \in rows : x[1] = chat_id}}

\* ------------------------------------------------ commands.py: the settings
\* /antibot on|off and /welcome on|off by a group admin; the store may fail
\* (set_group_setting returns False, nothing is written).
antibot_command(chat_id, on) ==
    /\ \/ /\ group_settings' = set_group_setting(group_settings, chat_id, "antibot_enabled", on)
          /\ NoFault
       \/ /\ Fault
          /\ UNCHANGED group_settings
    /\ UNCHANGED <<blacklist, join, scheduled_jobs, next_id>>
    /\ UNCHANGED nonJoin

welcome_command(chat_id, on) ==
    /\ group_settings' = set_group_setting(group_settings, chat_id, "welcome_enabled", on)
    /\ UNCHANGED <<blacklist, join, scheduled_jobs, next_id, faults>>
    /\ UNCHANGED nonJoin

setwelcome_command(chat_id) ==
    /\ group_settings' = set_welcome_message(group_settings, chat_id, "hi")
    /\ UNCHANGED <<blacklist, join, scheduled_jobs, next_id, faults>>
    /\ UNCHANGED nonJoin

\* /addblacklist and /removeblacklist by a group admin (the command lower-cases
\* the term before the store does).
add_blacklist_command(chat_id, term) ==
    /\ \/ /\ blacklist' = add_to_blacklist(blacklist, chat_id, Lower(term))
          /\ NoFault
       \/ /\ Fault
          /\ UNCHANGED blacklist
    /\ UNCHANGED <<group_settings, join, scheduled_jobs, next_id>>
    /\ UNCHANGED nonJoin

remove_blacklist_command(chat_id, term) ==
    /\ blacklist' = remove_from_blacklist(blacklist, chat_id, Lower(term))
    /\ UNCHANGED <<group_settings, join, scheduled_jobs, next_id, faults>>
    /\ UNCHANGED nonJoin

\* setup_bot runs init_db at every start: DROP TABLE IF EXISTS group_settings.
init_db ==
    /\ group_settings' = NoSettings
    /\ UNCHANGED <<blacklist, join, scheduled_jobs, next_id, faults, cmd>>
    /\ UNCHANGED nonJoin

\* ------------------------------------------ moderation.py: check_new_member
\* Mutant of Matches: the threshold has to be exceeded.
MatchesAbove(ratio) == ratio > SIMILARITY_THRESHOLD

\* check_new_member line 161: if ratio >= SIMILARITY_THRESHOLD.
Matches(ratio) == ratio >= SIMILARITY_THRESHOLD

\* Lines 112-116: the event is a join when the new status is "member" and the old
\* one was no membership.
MemberStatuses == {"left", "member", "administrator"}

\* Mutant of Joining: the old status is not looked at.
JoiningAnyMember(old_status, new_status) == new_status = "member"

Joining(old_status, new_status) ==
    new_status = "member" /\ old_status \notin {"creator", "administrator", "member"}

\* Lines 148-152: the lower-cased name parts the user has, in order (joined by
\* spaces in the code; kept as the list of parts here).
text_to_check(username, first_name, last_name) ==
    SelectSeq(<<Lower(username), Lower(first_name), Lower(last_name)>>, LAMBDA p : p # "")

\* Lines 122-129: a bot is removed on sight when the group's anti-bot reads on.
KickBotNever(is_bot, antibot_on) == FALSE

KickBot(is_bot, antibot_on) == is_bot /\ antibot_on

\* The orders in which "for blocked_term in blacklist" (line 159) can visit a set.
Orders(terms) ==
    {order \in [1..Cardinality(terms) -> terms] : \A t \in terms : \E i \in DOMAIN order : order[i] = t}

WholeBlacklist(order, ratios) == order

\* Lines 159-179: the terms the loop compares, in order: it returns at the first
\* one whose ratio reaches the threshold.
RECURSIVE UpToFirstMatch(_, _)
UpToFirstMatch(order, ratios) ==
    IF order = <<>> THEN <<>>
    ELSE IF Matches(ratios[Head(order)]) THEN <<Head(order)>>
    ELSE <<Head(order)>> \o UpToFirstMatch(Tail(order), ratios)

\* One run of check_new_member on a membership event of chat_id, from the first line
\* to its return. `ratios` is what fuzz.token_set_ratio gives for each term of the
\* group's blacklist against the user's text, `order` the order in which the set is
\* visited. The run is recorded in join: the terms compared (checked), the
\* ban_chat_member calls issued (bans), whether a ban worked (removed), the notice
\* sent, whether the welcome message was sent, the call that failed if one did
\* (failed) and whether its error left the handler (raised); n is the parity of the
\* number of runs so far.
check_new_member(chat_id) ==
    /\ \/ \* lines 106-116: not a join: return, whoever the user is
          /\ \E old_status, new_status \in MemberStatuses :
                /\ ~Joining(old_status, new_status)
                /\ join' = [JoinNone EXCEPT !.n = 1 - join.n, !.chat = chat_id,
                                            !.old_status = old_status,
                                            !.new_status = new_status]
          /\ NoFault
       \/ \E old_status, new_status \in MemberStatuses,
             is_bot \in BOOLEAN, username \in Usernames, first_name \in FirstNames,
             ratios \in [get_blacklist(blacklist, chat_id) -> Ratios],
             order \in Orders(get_blacklist(blacklist, chat_id)) :
          /\ Joining(old_status, new_status)
          /\ LET settings == get_group_settings(group_settings, chat_id)
                 user_full_text == text_to_check(username, first_name, "")
                 visited == IF user_full_text = <<>> THEN <<>>
                            ELSE UpToFirstMatch(order, ratios)
                 hits == SelectSeq(visited, LAMBDA t : Matches(ratios[t]))
                 Ends(failed, raised, checked, bans, removed, notice, welcome) ==
                     join' = [n |-> 1 - join.n, chat |-> chat_id,
                              old_status |-> old_status, new_status |-> new_status,
                              joining |-> TRUE,
                              is_bot |-> is_bot, probe |-> user_full_text,
                              ratios |-> ratios, checked |-> checked, bans |-> bans,
                              removed |-> removed, notice |-> notice, welcome |-> welcome,
                              failed |-> failed, raised |-> raised]
                 \* lines 183-219: the welcome message, when enabled and set
                 Welcome(failed, checked) ==
                     Ends(failed, FALSE, checked, 0, FALSE, <<>>,
                          settings.welcome_enabled /\ settings.welcome_message # NoMessage)
                 \* lines 154-219 when every call works
                 Scan(failed) ==
                     IF hits # <<>>
                     THEN Ends(failed, FALSE, visited, Len(hits), TRUE,
                               <<"auto_removal", hits[1]>>, FALSE)
                     ELSE Welcome(failed, visited)
                 kick == KickBot(is_bot, settings.antibot_enabled)
             IN
             \/ \* lines 122-143: a bot, anti-bot on: banned, notice, return
                /\ kick
                /\ NoFault
                /\ Ends("none", FALSE, <<>>, 1, TRUE, <<"removed_bot">>, FALSE)
             \/ \* line 133: the ban fails, logged at line 142, return
                /\ kick
                /\ Fault
                /\ Ends("ban", FALSE, <<>>, 1, FALSE, <<>>, FALSE)
             \/ \* line 134: the notice fails after the ban, logged at line 142, return
                /\ kick
                /\ Fault
                /\ Ends("notice", FALSE, <<>>, 1, TRUE, <<>>, FALSE)
             \/ \* line 125: get_group_settings cannot connect (get_db_connection
                \* raises, database.py 16): the error leaves the handler
                /\ is_bot
                /\ Fault
                /\ Ends("settings", TRUE, <<>>, 0, FALSE, <<>>, FALSE)
             \/ \* line 125: get_group_settings fails on the query and returns the
                \* defaults (anti-bot off): the bot goes on to the blacklist check
                /\ is_bot
                /\ Fault
                /\ Scan("settings")
             \/ \* lines 154-219: no bot to remove, every call works
                /\ ~kick
                /\ NoFault
                /\ Scan("none")
             \/ \* line 164: the ban fails: "Action Failed" notice, return
                /\ ~kick /\ hits # <<>>
                /\ Fault
                /\ Ends("ban", FALSE, visited, Len(hits), FALSE, <<"action_failed">>, FALSE)
             \/ \* line 165: the notice fails after the ban, caught at line 172: the
                \* "Action Failed" notice is sent, return
                /\ ~kick /\ hits # <<>>
                /\ Fault
                /\ Ends("notice", FALSE, visited, Len(hits), TRUE, <<"action_failed">>, FALSE)
             \/ \* line 156: get_blacklist fails (empty set, or caught at line 180): no
                \* term is compared; on to the welcome message
                /\ ~kick /\ user_full_text # <<>>
                /\ Fault
                /\ Welcome("blacklist", <<>>)
             \/ \* lines 184-195: get_group_settings or the sending of the welcome
                \* fails (caught at line 218): no welcome message
                /\ ~kick /\ hits = <<>>
                /\ Fault
                /\ Ends("welcome", FALSE, visited, 0, FALSE, <<>>, FALSE)
    /\ \E target_id \in Targets :      \* lines 204-212: add_job for the welcome sent
          scheduled_jobs' = IF join'.welcome
                            THEN add_job(scheduled_jobs, next_id, "delete_message",
                                         chat_id, target_id, now + 1)
                            ELSE scheduled_jobs
    /\ next_id' = IF scheduled_jobs' = scheduled_jobs THEN next_id ELSE next_id + 1
    /\ UNCHANGED <<group_settings, blacklist, cmd>>
    /\ UNCHANGED nonJoin

JoinNext ==
    \/ \E c \in Chats, on \in BOOLEAN : antibot_command(c, on) /\ UNCHANGED cmd
    \/ \E c \in Chats, on \in BOOLEAN : welcome_command(c, on) /\ UNCHANGED cmd
    \/ \E c \in Chats : setwelcome_command(c) /\ UNCHANGED cmd
    \/ \E c \in Chats, term \in TypedTerms : add_blacklist_command(c, term) /\ UNCHANGED cmd
    \/ \E c \in Chats, term \in TypedTerms :
          remove_blacklist_command(c, term) /\ UNCHANGED cmd
    \/ init_db
    \/ \E c \in Chats : check_new_member(c)

JoinSpec == SchedInit /\ [][JoinNext]_vars

\* A run of check_new_member has just ended.
JoinStep == join'.n # join.n

\* C5: a bot's join in a group whose antibot_enabled is false makes no
\* ban_chat_member call, whatever the blacklist holds and whatever the bot is called.
C5_BotStaysWhenAntibotOff ==
    [][(/\ JoinStep
        /\ join'.joining
        /\ join'.is_bot
        /\ ~get_group_settings(group_settings, join'.chat).antibot_enabled)
          => join'.bans = 0]_vars

\* C6: for a join with a non-empty text to check, in a run in which no call fails:
\* if some term of the group's blacklist has a ratio of 90 or more with the text, a
\* ban is issued; if every term's ratio is 89 or less, no ban is issued (unless the
\* user is a bot and anti-bot is on, the rule that comes first).
C6_BanAtThreshold ==
    [][(JoinStep /\ join'.joining /\ join'.probe # <<>> /\ faults' = faults) =>
          LET terms == get_blacklist(blacklist, join'.chat)
              antibot == join'.is_bot
                         /\ get_group_settings(group_settings, join'.chat).antibot_enabled
          IN /\ (\E t \in terms : join'.ratios[t] >= 90) => join'.bans = 1
             /\ ((\A t \in terms : join'.ratios[t] <= 89) /\ ~antibot) => join'.bans = 0]_vars
\* A human joined whose text has ratio exactly 90 with one term and less with the
\* others: banned, and the notice names that term.
C6_Witness ==
    /\ join.joining /\ ~join.is_bot /\ join.probe # <<>>
    /\ \E t \in DOMAIN join.ratios :
          /\ join.ratios[t] = 90
          /\ \A u \in DOMAIN join.ratios \ {t} : join.ratios[u] = 89
          /\ DOMAIN join.ratios # {t}
          /\ join.bans = 1
          /\ join.removed
          /\ join.notice = <<"auto_removal", t>>

\* C12: when a run of check_new_member has sent the welcome message, scheduled_jobs
\* holds after the run a delete_message job of the group, for the message sent,
\* with run_at one minute (one tick) after the sending.
C12_WelcomeCleanupScheduled ==
    [][(JoinStep /\ join'.joining /\ join'.welcome) =>
          \E j \in scheduled_jobs' :
              /\ j.job_type = "delete_message"
              /\ j.chat_id = join'.chat
              /\ j.target_id \in Targets
              /\ j.run_at = now + 1]_vars

\* ------------------------------------------- antiword / antilink tables and commands
LowerText(text) == [i \in DOMAIN text |-> Lower(text[i])]

\* Python's "term in text"
IsSubstring(term, text) ==
    \E i \in 0..(Len(text) - Len(term)) : SubSeq(text, i + 1, i + Len(term)) = term

add_antiword(rows, chat_id, word) == rows \cup {<<chat_id, LowerText(word)>>}
remove_antiword(rows, chat_id, word) == rows \ {<<chat_id, word>>}
get_antiword_list(rows, chat_id) == {r[2] : r \in {x \in rows : x[1] = chat_id}}

add_antilink_whitelist(rows, chat_id, domain) == rows \cup {<<chat_id, LowerText(domain)>>}
remove_antilink_whitelist(rows, chat_id, domain) == rows \ {<<chat_id, LowerText(domain)>>}
get_antilink_whitelist(rows, chat_id) == {r[2] : r \in {x \in rows : x[1] = chat_id}}

Schemes == {"http://", "https://"}
PathPieces == {"/x"}

\* urlparse(url).netloc: what follows "scheme://" up to the next "/". A piece
\* "HTTP://" met there gives its part before the slashes and ends the netloc.
RECURSIVE Netloc(_)
Netloc(rest) ==
    IF rest = <<>> \/ Head(rest) \in PathPieces THEN <<>>
    ELSE IF Head(rest) = "HTTP://" THEN <<"HTTP:">>
    ELSE <<Head(rest)>> \o Netloc(Tail(rest))

\* the base domain of a typed URL; <<>> when there is none
get_clean_url(url) ==
    IF url = <<>> THEN <<>>
    ELSE LET full == IF Head(url) \in Schemes THEN url ELSE <<"https://">> \o url
             domain == Netloc(Tail(full))
         IN LowerText(IF domain # <<>> /\ Head(domain) = "www." THEN Tail(domain) ELSE domain)

TypedUrls == {<<"www.", "Example", ".", "com", "/x">>}
TypedWords == {<<"Spam">>}
LinkActions == {"on", "off", "allow", "disallow"}
WordActions == {"on", "off", "add", "remove"}

antilink_command(chat_id, action, arg) ==
    /\ \/ /\ action \in {"on", "off"}
          /\ group_settings' =
                set_group_setting(group_settings, chat_id, "antilink_enabled", action = "on")
          /\ UNCHANGED antilink_whitelist
       \/ /\ action = "allow"
          /\ get_clean_url(arg) # <<>>
          /\ antilink_whitelist' =
                add_antilink_whitelist(antilink_whitelist, chat_id, get_clean_url(arg))
          /\ UNCHANGED group_settings
       \/ /\ action = "disallow"
          /\ get_clean_url(arg) # <<>>
          /\ antilink_whitelist' =
                remove_antilink_whitelist(antilink_whitelist, chat_id, get_clean_url(arg))
          /\ UNCHANGED group_settings
    /\ UNCHANGED <<antiword_blacklist, msg, user_warnings, hv, faults>>
    /\ UNCHANGED nonMsg

antiword_command(chat_id, action, word) ==
    /\ \/ /\ action \in {"on", "off"}
          /\ group_settings' =
                set_group_setting(group_settings, chat_id, "antiword_enabled", action = "on")
          /\ UNCHANGED antiword_blacklist
       \/ /\ action = "add"
          /\ antiword_blacklist' = add_antiword(antiword_blacklist, chat_id, LowerText(word))
          /\ UNCHANGED group_settings
       \/ /\ action = "remove"
          /\ antiword_blacklist' = remove_antiword(antiword_blacklist, chat_id, LowerText(word))
          /\ UNCHANGED group_settings
    /\ UNCHANGED <<antilink_whitelist, msg, user_warnings, hv, faults>>
    /\ UNCHANGED nonMsg

\* ------------------------------------------------- moderation.py: handle_message
\* is_admin: reported says whether the platform lists the user as an administrator
\* of the group; a failed lookup reports nobody.
IsSuperAdmin(user_id, reported) == user_id \in ADMIN_IDS_SET

is_admin(user_id, reported) == user_id \in ADMIN_IDS_SET \/ reported

\* the pattern (t\.me/|https?://|[\w-]+\.[\w-]+)
NonWordPieces == Schemes \cup PathPieces \cup {"t.me/", ".", " ", "www."}

LooksLikeLink(text) ==
    \E i \in DOMAIN text :
        \/ text[i] \in Schemes \cup {"t.me/"}
        \/ text[i] = "www." /\ i < Len(text) /\ text[i + 1] \notin NonWordPieces
        \/ /\ text[i] = "."
           /\ i > 1 /\ text[i - 1] \notin NonWordPieces
           /\ i < Len(text) /\ text[i + 1] \notin NonWordPieces

LinkTypes == {"url", "text_link"}

\* the first entity of a link type, or 0
FirstLink(entities) ==
    IF \E i \in DOMAIN entities : entities[i].type \in LinkTypes
    THEN CHOOSE i \in DOMAIN entities :
            /\ entities[i].type \in LinkTypes
            /\ \A j \in 1..(i - 1) : entities[j].type \notin LinkTypes
    ELSE 0

has_link(text, entities) == LooksLikeLink(LowerText(text)) \/ FirstLink(entities) # 0

text_to_check_links(text, entities) ==
    LET lowered == LowerText(text)
        i == FirstLink(entities)
    IN IF LooksLikeLink(lowered) \/ i = 0 THEN lowered
       ELSE IF entities[i].type = "text_link" /\ entities[i].url # <<>>
            THEN lowered \o <<" ">> \o LowerText(entities[i].url)
            ELSE lowered

TextAsTyped(text) == text

text_lower(text) == LowerText(text)

WordHit(words, text) == \E word \in words : IsSubstring(word, text_lower(text))

PermittedExact(allowed_domains, checked) == checked \in allowed_domains

Permitted(allowed_domains, checked) ==
    \E domain \in allowed_domains : IsSubstring(domain, checked)

\* Mutant of FirstViolation: the link check comes first.
LinkBeforeWord(word_hit, link_hit) ==
    IF link_hit THEN "antilink" ELSE IF word_hit THEN "antiword" ELSE "none"

\* handle_message lines 248-294: the word check comes first and returns after its
\* handle_violation call (line 259); the link check is reached only without a word
\* hit, and returns after its own (line 294).
FirstViolation(word_hit, link_hit) ==
    IF word_hit THEN "antiword" ELSE IF link_hit THEN "antilink" ELSE "none"

ExampleUrl == <<"https://", "Example", ".", "com">>
Texts ==
    {<<"hi">>, <<"Spam", "mer">>, <<"https://", "example", ".", "com", "/x">>,
     <<"https://", "evil", ".", "com">>}
EntityLists ==
    {<<>>,
     <<[type |-> "bold", url |-> <<>>], [type |-> "text_link", url |-> ExampleUrl]>>,
     <<[type |-> "url", url |-> <<>>], [type |-> "text_link", url |-> ExampleUrl]>>}
Failures == {"none", "settings", "admins", "antiwords", "whitelist"}

handle_message(chat_id) ==
    /\ msg.n < MaxMessages
    /\ \E author \in Authors, reported \in BOOLEAN, failure \in Failures :
       LET settings == IF failure = "settings" THEN DefaultSettings
                       ELSE get_group_settings(group_settings, chat_id)
           filters_off == ~settings.antilink_enabled /\ ~settings.antiword_enabled
           admin == is_admin(author, IF failure = "admins" THEN FALSE ELSE reported)
           Early == [MsgNone EXCEPT !.n = msg.n + 1, !.author = author,
                                    !.reported = reported, !.failure = failure]
       IN
       /\ failure # "none" => faults < MaxFaults
       /\ author \in ADMIN_IDS_SET => ~reported
       /\ \/ \* lines 242-243, 246: both filters off, or the author is an administrator
             /\ filters_off \/ admin
             /\ failure \in {"none", "settings"}
             /\ msg' = Early
             /\ UNCHANGED <<user_warnings, hv, faults>>
          \/ \* lines 239, 250, 283: a store read cannot connect (get_db_connection
             \* raises, database.py 16) and the error leaves the handler
             /\ \/ failure = "settings"
                \/ failure = "antiwords" /\ ~filters_off /\ ~admin /\ settings.antiword_enabled
                \/ failure = "whitelist" /\ ~filters_off /\ ~admin /\ settings.antilink_enabled
             /\ msg' = [Early EXCEPT !.raised = TRUE]
             /\ UNCHANGED <<user_warnings, hv, faults>>
          \/ /\ ~filters_off /\ ~admin
             /\ failure = "admins" => reported
             /\ \E text \in Texts, entities \in EntityLists :
                LET words == IF failure = "antiwords" THEN {}
                             ELSE get_antiword_list(antiword_blacklist, chat_id)
                    word_hit == settings.antiword_enabled /\ words # {} /\ WordHit(words, text)
                    checked == text_to_check_links(text, entities)
                    linked == has_link(text, entities)
                    allowed_domains == IF failure = "whitelist" THEN {}
                                       ELSE get_antilink_whitelist(antilink_whitelist, chat_id)
                    violation ==
                        FirstViolation(word_hit,
                                       settings.antilink_enabled /\ linked
                                           /\ ~Permitted(allowed_domains, checked))
                IN
                /\ failure = "antiwords" => settings.antiword_enabled
                /\ failure = "whitelist" => ~word_hit /\ settings.antilink_enabled /\ linked
                /\ IF violation = "none"
                   THEN UNCHANGED <<user_warnings, hv, faults>>
                   ELSE handle_violation(violation)
                /\ msg' = [n |-> msg.n + 1, author |-> author, reported |-> reported,
                           failure |-> failure, text |-> text, entities |-> entities,
                           text_to_check |-> IF word_hit THEN <<>> ELSE checked,
                           has_link |-> ~word_hit /\ linked, violation |-> violation,
                           raised |-> violation # "none" /\ hv'[Len(hv')].raised]
    /\ UNCHANGED <<group_settings, antiword_blacklist, antilink_whitelist, cmd>>
    /\ UNCHANGED nonMsg

MsgNext ==
    \/ \E chat_id \in Chats, action \in LinkActions, arg \in TypedUrls :
          antilink_command(chat_id, action, arg) /\ UNCHANGED cmd
    \/ \E chat_id \in Chats, action \in WordActions, word \in TypedWords :
          antiword_command(chat_id, action, word) /\ UNCHANGED cmd
    \/ \E chat_id \in Chats : handle_message(chat_id)

MsgSpec == SchedInit /\ [][MsgNext]_vars

MsgStep == msg'.n = msg.n + 1
\* a run that got past the two early returns and in which no call failed
Filtered == MsgStep /\ msg'.text # <<>> /\ msg'.failure = "none" /\ faults' = faults
NoModeration == msg'.violation = "none" /\ UNCHANGED <<user_warnings, hv>>
Violation(warn_type) ==
    /\ msg'.violation = warn_type
    /\ Len(hv') = Len(hv) + 1
    /\ hv'[Len(hv')].warn_type = warn_type
ExampleDomain == <<"example", ".", "com">>

\* C15: with antilink_enabled true and a non-admin author, a message with a link
\* that the word check let through is left alone (no deletion, no warning, no
\* counter change) when some domain of the group's allow-list occurs in the check
\* text, and is otherwise handled as an antilink violation. With the allow-list
\* {example.com}, "https://example.com/x" is left alone and "https://evil.com" is
\* a violation.
C15_AllowListDecides ==
    [][(/\ Filtered
        /\ get_group_settings(group_settings, 1).antilink_enabled
        /\ has_link(msg'.text, msg'.entities)
        /\ msg'.violation # "antiword") =>
          LET allowed == get_antilink_whitelist(antilink_whitelist, 1)
          IN /\ IF \E d \in allowed : IsSubstring(d, msg'.text_to_check)
                THEN NoModeration
                ELSE Violation("antilink")
             /\ (allowed = {ExampleDomain} /\ msg'.entities = <<>>) =>
                   /\ msg'.text = <<"https://", "example", ".", "com", "/x">> => NoModeration
                   /\ msg'.text = <<"https://", "evil", ".", "com">> => Violation("antilink")]_vars
\* "https://example.com/x" was posted by a member while the allow-list held
\* example.com and the link filter was on, and nothing was done about it.
C15_Witness ==
    /\ msg.n = 1 /\ msg.failure = "none" /\ ~msg.reported /\ msg.author = 7
    /\ msg.text = <<"https://", "example", ".", "com", "/x">>
    /\ msg.has_link
    /\ get_group_settings(group_settings, 1).antilink_enabled
    /\ get_antilink_whitelist(antilink_whitelist, 1) = {ExampleDomain}
    /\ msg.violation = "none"
    /\ hv = <<>>

\* C16: with antiword_enabled true and a non-admin author, a run of handle_message
\* in which no read fails handles the message as an antiword violation exactly when
\* some stored antiword term of the group is a substring of the lower-cased message
\* text; the terms are stored lower-cased, so the match ignores case.
C16_WordCheck ==
    [][(/\ MsgStep /\ msg'.text # <<>> /\ msg'.failure = "none"
        /\ get_group_settings(group_settings, 1).antiword_enabled) =>
          LET words == get_antiword_list(antiword_blacklist, 1)
              hit == \E word \in words : IsSubstring(word, LowerText(msg'.text))
          IN /\ hit => Violation("antiword")
             /\ ~hit => msg'.violation # "antiword"
             /\ \A word \in words : word = LowerText(word)]_vars
\* "/antiword add Spam" stored "spam"; a member posted "Spammer" with the word filter
\* on, and the message was handled as an antiword violation.
C16_Witness ==
    /\ msg.n = 1 /\ msg.failure = "none" /\ msg.author = 7
    /\ msg.text = <<"Spam", "mer">>
    /\ get_antiword_list(antiword_blacklist, 1) = {<<"spam">>}
    /\ get_group_settings(group_settings, 1).antiword_enabled
    /\ msg.violation = "antiword"
    /\ Len(hv) = 1 /\ hv[1].warn_type = "antiword"

\* C17: in a run of handle_message that reaches the link check, the target URL of
\* every text_link entity of the message is part of the text compared against the
\* allow-list, whether or not the visible text itself looks like a link.
C17_HiddenTargetChecked ==
    [][(/\ Filtered
        /\ get_group_settings(group_settings, 1).antilink_enabled
        /\ msg'.violation # "antiword") =>
          \A i \in DOMAIN msg'.entities :
              (msg'.entities[i].type = "text_link" /\ msg'.entities[i].url # <<>>) =>
                  IsSubstring(LowerText(msg'.entities[i].url), msg'.text_to_check)]_vars

\* C18: a run of handle_message takes no moderation action (no deletion of the
\* message, no change of a warning counter, no notice, no mute) when both
\* antilink_enabled and antiword_enabled are false for the group, or when the author
\* is in the super-admin set, or when the platform reports the author as an
\* administrator of the group.
C18_SkipsAdminsAndDisabled ==
    [][(/\ MsgStep
        /\ msg'.failure # "admins"
        /\ \/ LET settings == get_group_settings(group_settings, 1)
              IN ~settings.antilink_enabled /\ ~settings.antiword_enabled
           \/ msg'.author \in ADMIN_IDS_SET
           \/ msg'.reported) =>
          NoModeration /\ faults' = faults]_vars
\* With both filters on and a term stored, a message of a group administrator or
\* of a super admin went through untouched.
C18_Witness ==
    /\ msg.n = 1 /\ msg.failure = "none"
    /\ msg.reported \/ msg.author \in ADMIN_IDS_SET
    /\ get_group_settings(group_settings, 1).antilink_enabled
    /\ get_group_settings(group_settings, 1).antiword_enabled
    /\ get_antiword_list(antiword_blacklist, 1) # {}
    /\ msg.violation = "none"
    /\ hv = <<>> /\ user_warnings = NoRows

\* C19: a run of handle_violation restricts the user only when the count
\* add_user_warning returned is at least the limit. A run whose new count N is below
\* the limit, and in which no call fails, makes no restrict call, leaves the counter
\* stored at N and sends the warning notice N/limit; besides the deletion of the
\* message it changes nothing else.
C19_RestrictOnlyAtLimit ==
    [][(Len(hv') = Len(hv) + 1) =>
          LET r == hv'[Len(hv')]
              k == WarnKey(r.warn_type)
          IN /\ r.restricts > 0 => r.new >= WarnLimit
             /\ (faults' = faults /\ r.new < WarnLimit) =>
                   /\ r.restricts = 0
                   /\ r.new = get_user_warnings(user_warnings, k) + 1
                   /\ get_user_warnings(user_warnings', k) = r.new
                   /\ \A o \in WarnKeys \ {k} :
                         get_user_warnings(user_warnings', o) = get_user_warnings(user_warnings, o)
                   /\ r.notice = WarnNotice(r.new, WarnLimit)
                   /\ UNCHANGED <<scheduled_jobs, api_calls, group_settings, blacklist>>]_vars
\* The second violation of a type was answered with the warning 2/3 and no restrict
\* call, and the third one with the restriction.
C19_Witness ==
    \E warn_type \in WarnTypes :
        LET runs == Handled(warn_type)
        IN /\ Len(runs) = WarnLimit
           /\ runs[2].new = 2 /\ runs[2].restricts = 0
           /\ runs[2].notice = WarnNotice(2, WarnLimit)
           /\ runs[WarnLimit].new = WarnLimit /\ runs[WarnLimit].restricts = 1

\* C20: a run of handle_violation whose deletion of the offending message fails
\* goes on as a run whose deletion succeeds: when no other call fails, the counter
\* is raised by one and, below the limit, stored and answered with the warning
\* notice, or, at the limit, the user is restricted, the row reset and the mute
\* notice sent.
C20_DeletionFailureGoesOn ==
    [][(Len(hv') = Len(hv) + 1 /\ ~hv'[Len(hv')].deleted /\ faults' = faults) =>
          LET r == hv'[Len(hv')]
              k == WarnKey(r.warn_type)
          IN /\ r.new = get_user_warnings(user_warnings, k) + 1
             /\ IF r.new >= WarnLimit
                THEN /\ r.restricts = 1
                     /\ r.notice = MuteNotice
                     /\ get_user_warnings(user_warnings', k) = 0
                ELSE /\ r.restricts = 0
                     /\ r.notice = WarnNotice(r.new, WarnLimit)
                     /\ get_user_warnings(user_warnings', k) = r.new]_vars
\* A violation whose message could not be deleted was warned 1/3, and a later one
\* whose message could not be deleted either brought the mute.
C20_Witness ==
    \E warn_type \in WarnTypes :
        LET runs == Handled(warn_type)
        IN /\ Len(runs) = WarnLimit
           /\ ~runs[1].deleted /\ runs[1].notice = WarnNotice(1, WarnLimit)
           /\ ~runs[WarnLimit].deleted
           /\ runs[WarnLimit].restricts = 1 /\ runs[WarnLimit].notice = MuteNotice

\* C21: when a bot joins a group whose antibot_enabled is true, and the reading of
\* the settings works, check_new_member issues one ban (ban_chat_member without
\* until_date: permanent) and stops: no blacklist term is compared, no welcome
\* message is sent and no job is scheduled.
C21_BotRemovedAndStops ==
    [][(/\ JoinStep /\ join'.joining /\ join'.is_bot
        /\ get_group_settings(group_settings, join'.chat).antibot_enabled
        /\ join'.failed # "settings") =>
          /\ join'.bans = 1
          /\ join'.checked = <<>>
          /\ join'.notice \in {<<"removed_bot">>, <<>>}
          /\ ~join'.welcome
          /\ scheduled_jobs' = scheduled_jobs]_vars
\* A bot whose name matches a blacklist term joined a group with anti-bot on and a
\* welcome message set: it was removed as a bot, no term compared, no welcome.
C21_Witness ==
    /\ join.joining /\ join.is_bot /\ join.probe # <<>>
    /\ LET settings == get_group_settings(group_settings, join.chat)
       IN settings.antibot_enabled /\ settings.welcome_enabled
          /\ settings.welcome_message # NoMessage
    /\ \E t \in DOMAIN join.ratios : join.ratios[t] >= SIMILARITY_THRESHOLD
    /\ join.bans = 1 /\ join.removed
    /\ join.notice = <<"removed_bot">>
    /\ join.checked = <<>> /\ ~join.welcome

\* C22: whenever check_new_member has decided to remove the joining user (a bot
\* under anti-bot, or a blacklist match) and the ban call fails, the notice that
\* stays in the group ("Action Failed") is sent.
C22_FailedRemovalReported ==
    [][(JoinStep /\ join'.joining /\ join'.bans >= 1 /\ join'.failed = "ban") =>
          join'.notice = <<"action_failed">>]_vars

\* C23: when a store read made while handling a join fails, the failure to connect
\* included, the read gives its default (anti-bot off for get_group_settings, no
\* term for get_blacklist) and the run goes on with it: no error leaves the handler,
\* a failed settings read removes no bot as a bot, and a failed blacklist read
\* compares no term and bans nobody.
C23_ReadFailureAdmits ==
    [][(JoinStep /\ join'.joining /\ join'.failed \in {"settings", "blacklist"}) =>
          /\ ~join'.raised
          /\ join'.failed = "settings" => join'.notice # <<"removed_bot">>
          /\ join'.failed = "blacklist" => (join'.bans = 0 /\ join'.checked = <<>>)]_vars

\* C24: no failure of a store call or of a platform call leaves an event handler as
\* an error: every run of check_new_member, of handle_message and of
\* handle_violation returns normally.
C24_HandlersReturn ==
    /\ ~join.raised
    /\ ~msg.raised
    /\ \A i \in DOMAIN hv : ~hv[i].raised

\* C25: every decision of a join or message event is taken from what the tables
\* hold when the event is handled (the result of the changes made before it): what
\* the row of group_settings, the blacklist, the antiword terms and the allow-list
\* of the group say then decides the outcome of a run in which no call fails.
StoredOn(column) == \E r \in group_settings : r.chat_id = 1 /\ r[column]
StoredTerms(table) == {x[2] : x \in {y \in table : y[1] = 1}}

C25_JoinReadsStore ==
    [][(JoinStep /\ join'.joining /\ faults' = faults) =>
          LET kicked == join'.is_bot /\ StoredOn("antibot_enabled")
              terms == StoredTerms(blacklist)
              match == join'.probe # <<>> /\ \E t \in terms : join'.ratios[t] >= 90
          IN /\ DOMAIN join'.ratios = terms
             /\ kicked <=> join'.notice = <<"removed_bot">>
             /\ ~kicked => (match <=> join'.bans = 1)
             /\ join'.welcome <=>
                   /\ ~kicked /\ ~match
                   /\ StoredOn("welcome_enabled")
                   /\ \E r \in group_settings : r.chat_id = 1 /\ r.welcome_message # NoMessage]_vars

C25_MessageReadsStore ==
    [][(MsgStep /\ msg'.failure = "none" /\ msg'.author = 7 /\ ~msg'.reported
        /\ (StoredOn("antilink_enabled") \/ StoredOn("antiword_enabled"))) =>
          LET text == msg'.text
              entities == msg'.entities
              word == /\ StoredOn("antiword_enabled")
                      /\ \E w \in StoredTerms(antiword_blacklist) :
                            IsSubstring(w, LowerText(text))
              link == /\ StoredOn("antilink_enabled")
                      /\ has_link(text, entities)
                      /\ ~\E d \in StoredTerms(antilink_whitelist) :
                            IsSubstring(d, text_to_check_links(text, entities))
          IN /\ text # <<>>
             /\ msg'.violation =
                   IF word THEN "antiword" ELSE IF link THEN "antilink" ELSE "none"]_vars

C26_RowsCountFromOne ==
    /\ \A k \in DOMAIN user_warnings : user_warnings[k] >= 1
    /\ \A k \in WarnKeys \ DOMAIN user_warnings : get_user_warnings(user_warnings, k) = 0

C26_ResetRemovesRow ==
    [][(Len(hv') = Len(hv) + 1 /\ faults' = faults /\ hv'[Len(hv')].restricts = 1) =>
          LET k == WarnKey(hv'[Len(hv')].warn_type)
          IN k \notin DOMAIN user_warnings' /\ get_user_warnings(user_warnings', k) = 0]_vars

C26_CounterInvariant == []C26_RowsCountFromOne /\ C26_ResetRemovesRow
\* One type's counter was reset by the mute (no row) while the other type's row
\* holds a count.
C26_Witness ==
    \E k \in WarnKeys, o \in WarnKeys :
        /\ k \notin DOMAIN user_warnings
        /\ \E i \in DOMAIN hv : WarnKey(hv[i].warn_type) = k /\ hv[i].notice = MuteNotice
        /\ o \in DOMAIN user_warnings /\ user_warnings[o] >= 1

\* C27: a row of group_settings, once written, is never deleted: no step of the
\* program, a restart running init_db included, leaves a group that had a row
\* without one.
C27_SettingsRowKept ==
    [][\A r \in group_settings : \E q \in group_settings' : q.chat_id = r.chat_id]_vars

\* C28: after any sequence of set_group_setting and set_welcome_message calls
\* group_settings holds at most one row per group id, and get_group_settings for
\* a group without a row gives the defaults: every feature off, both warn limits 3,
\* no welcome message.
C28_OneRowPerGroup ==
    /\ \A r \in group_settings, q \in group_settings : r.chat_id = q.chat_id => r = q
    /\ \A c \in Chats \cup {2} :
          (~\E r \in group_settings : r.chat_id = c) =>
              get_group_settings(group_settings, c) =
                  [antibot_enabled |-> FALSE, antilink_enabled |-> FALSE,
                   antiword_enabled |-> FALSE, antilink_warn_limit |-> 3,
                   antiword_warn_limit |-> 3, welcome_enabled |-> FALSE,
                   welcome_message |-> NoMessage]
\* Three writes on group 1 (/antibot on, /welcome on, /setwelcome) left one row
\* holding all three values.
C28_Witness ==
    /\ Cardinality(group_settings) = 1
    /\ \E r \in group_settings :
          /\ r.chat_id = 1
          /\ r.antibot_enabled /\ r.welcome_enabled /\ r.welcome_message = "hi"

\* C29: the terms of the blacklist are stored lower-cased, one row per (group,
\* term): adding a term that the group already has, in any letter case, leaves the
\* blacklist as it was and returns False, so that adding twice is adding once.
SameTerm(term) == {t \in TypedTerms \cup {Lower(u) : u \in TypedTerms} : Lower(t) = Lower(term)}

C29_AddIsIdempotent ==
    /\ \A row \in blacklist : row[2] = Lower(row[2])
    /\ \A c \in Chats, term \in TypedTerms :
          LET once == add_to_blacklist(blacklist, c, term)
          IN /\ \A again \in SameTerm(term) :
                   /\ add_to_blacklist(once, c, again) = once
                   /\ ~add_to_blacklist_result(once, c, again)
             /\ Cardinality({row \in once : row[1] = c /\ Lower(row[2]) = Lower(term)}) = 1
\* "Scam" and "bob" were added to group 1: the table holds "scam" and "bob".
C29_Witness == blacklist = {<<1, "scam">>, <<1, "bob">>}

C31_ActsOnlyOnJoin ==
    [][(/\ JoinStep
        /\ ~(/\ join'.new_status = "member"
             /\ join'.old_status \notin {"member", "administrator", "creator"})) =>
       /\ join'.bans = 0 /\ ~join'.removed
       /\ join'.notice = <<>> /\ ~join'.welcome
       /\ UNCHANGED <<group_settings, blacklist, scheduled_jobs, user_warnings,
                      antiword_blacklist, antilink_whitelist>>]_vars

\* A demotion (administrator to member) was seen in a group that has a blacklist
\* and anti-bot on, and it was not treated as a join.
C31_Witness ==
    /\ join.old_status = "administrator" /\ join.new_status = "member"
    /\ ~join.joining /\ join.bans = 0
    /\ get_blacklist(blacklist, join.chat) # {}
    /\ get_group_settings(group_settings, join.chat).antibot_enabled

\* --------------------------- moderation.py: handle_violation runs interleaved
\* Handlers are coroutines: two runs of handle_violation interleave at their awaits
\* (the store calls run in threads, the platform calls are awaited). A run is one
\* caller c: its add_user_warning is W_Execute(c) then W_Commit(c), after which
\* wcall[c].ret is new_warn_count; the steps below are lines 50-94. The run is
\* recorded in hv when it ends (pc "end").
EndRun(c, deleted, restricts, notice, raised) ==
    /\ hv' = Append(hv, [warn_type |-> wcall[c].key[3], deleted |-> deleted,
                         new |-> wcall[c].ret, restricts |-> restricts,
                         notice |-> notice, raised |-> raised])
    /\ wcall' = [wcall EXCEPT ![c].pc = "end"]

\* Lines 50-52: add_user_warning returned -1: logged, return.
V_Failed(c) ==
    /\ wcall[c].pc = "done" /\ wcall[c].ret = -1
    /\ \E deleted \in BOOLEAN : EndRun(c, deleted, 0, <<>>, FALSE)
    /\ UNCHANGED <<user_warnings, faults, msg>>
    /\ UNCHANGED nonWarn

\* Lines 55-66: the count returned reaches the limit: restrict_chat_member; a
\* failure is caught at line 81 and the run ends.
V_Restrict(c) ==
    /\ wcall[c].pc = "done" /\ wcall[c].ret # -1
    /\ LimitReached(wcall[c].ret, WarnLimit)
    /\ \/ /\ NoFault
          /\ wcall' = [wcall EXCEPT ![c].pc = "muted"]
          /\ UNCHANGED hv
       \/ /\ Fault
          /\ \E deleted \in BOOLEAN : EndRun(c, deleted, 0, <<>>, FALSE)
    /\ UNCHANGED <<user_warnings, msg>>
    /\ UNCHANGED nonWarn

\* Line 69: reset_user_warnings deletes the key's row, whatever it holds by now;
\* a failure is swallowed by the store function (the run goes on) or raised by
\* get_db_connection (caught at line 81, the run ends).
V_Reset(c) ==
    /\ wcall[c].pc = "muted"
    /\ \/ /\ NoFault
          /\ user_warnings' = reset_user_warnings(user_warnings, wcall[c].key)
          /\ wcall' = [wcall EXCEPT ![c].pc = "cleared"]
          /\ UNCHANGED hv
       \/ /\ Fault
          /\ UNCHANGED user_warnings
          /\ \/ wcall' = [wcall EXCEPT ![c].pc = "cleared"] /\ UNCHANGED hv
             \/ \E deleted \in BOOLEAN : EndRun(c, deleted, 1, <<>>, FALSE)
    /\ UNCHANGED msg
    /\ UNCHANGED nonWarn

\* Lines 72-79: the mute notice; a failure is caught at line 81.
V_MuteNotice(c) ==
    /\ wcall[c].pc = "cleared"
    /\ \E deleted \in BOOLEAN :
          \/ NoFault /\ EndRun(c, deleted, 1, MuteNotice, FALSE)
          \/ Fault /\ EndRun(c, deleted, 1, <<>>, FALSE)
    /\ UNCHANGED <<user_warnings, msg>>
    /\ UNCHANGED nonWarn

\* Lines 83-94: below the limit: the warning notice; a failure leaves the handler.
V_Warn(c) ==
    /\ wcall[c].pc = "done" /\ wcall[c].ret # -1
    /\ ~LimitReached(wcall[c].ret, WarnLimit)
    /\ \E deleted \in BOOLEAN :
          \/ NoFault /\ EndRun(c, deleted, 0, WarnNotice(wcall[c].ret, WarnLimit), FALSE)
          \/ Fault /\ EndRun(c, deleted, 0, <<>>, TRUE)
    /\ UNCHANGED <<user_warnings, msg>>
    /\ UNCHANGED nonWarn

\* The user has antilink warnings one below the limit (the state after
\* WarnLimit - 1 violations handled one after another) and no antiword warning.
MuteRaceInit ==
    /\ scheduled_jobs = {}
    /\ next_id = 1
    /\ now = 0
    /\ pc = [w \in Workers |-> "sleep"]
    /\ tx_rows = [w \in Workers |-> {}]
    /\ jobs_to_run = [w \in Workers |-> <<>>]
    /\ hist = [i \in Ids |-> {}]
    /\ api_calls = {}
    /\ faults = 0
    /\ pass_calls = [w \in Workers |-> <<>>]
    /\ user_warnings = put_warning(NoRows, WarnKey("antilink"), WarnLimit - 1)
    /\ hv = <<>>
    /\ wcall = [c \in Callers |-> WcallIdle]
    /\ JoinIdle
    /\ MsgIdle
    /\ CmdIdle

MuteRaceNext ==
    \/ \E c \in Callers : W_Execute(c)
    \/ \E c \in Callers : W_Commit(c)
    \/ \E c \in Callers : V_Failed(c)
    \/ \E c \in Callers : V_Restrict(c)
    \/ \E c \in Callers : V_Reset(c)
    \/ \E c \in Callers : V_MuteNotice(c)
    \/ \E c \in Callers : V_Warn(c)

MuteRaceSpec == MuteRaceInit /\ [][MuteRaceNext]_vars

\* The runs of handle_violation begun for one violation type.
Begun(warn_type) ==
    {c \in Callers : wcall[c].pc # "start" /\ wcall[c].key = WarnKey(warn_type)}

\* The restrict calls that worked, over the ended runs of one violation type.
Mutes(warn_type) == Len(SelectSeq(Handled(warn_type), LAMBDA r : r.restricts = 1))

\* C32: when two handle_violation runs for the same (group, user, violation type)
\* are made, in any interleaving, while the counter is one below warn_limit, and no
\* call fails, exactly one restrict call is made across both runs.
C32_OneMuteForTwoRuns ==
    (/\ faults = 0
     /\ Cardinality(Begun("antilink")) = 2
     /\ \A c \in Begun("antilink") : wcall[c].pc = "end") =>
        Mutes("antilink") = 1

\* C33: in a run of handle_violation whose count reaches warn_limit the steps are
\* restrict, then counter reset, then mute notice: the counter row is removed and
\* the mute notice sent only in runs whose restrict call worked; when the restrict
\* call fails the counter stays at the count returned (>= warn_limit) and no notice
\* is sent, and the next violation of that type by the user reaches the limit
\* again and, when no call fails, mutes.
C33_ResetOnlyAfterRestrict ==
    [][(Len(hv') = Len(hv) + 1 /\ hv'[Len(hv')].new >= WarnLimit) =>
          LET r == hv'[Len(hv')]
              k == WarnKey(r.warn_type)
          IN /\ r.restricts = 0 =>
                   /\ get_user_warnings(user_warnings', k) = r.new
                   /\ r.notice = <<>>
             /\ k \notin DOMAIN user_warnings' => r.restricts = 1
             /\ r.notice = <<"mute">> => r.restricts = 1]_vars
C33_NextViolationMutes ==
    [][(Len(hv') = Len(hv) + 1 /\ hv'[Len(hv')].new # -1) =>
          LET r == hv'[Len(hv')]
              before == Handled(r.warn_type)
          IN (/\ before # <<>>
              /\ before[Len(before)].new >= WarnLimit
              /\ before[Len(before)].restricts = 0) =>
                 /\ r.new = before[Len(before)].new + 1
                 /\ faults' = faults => r.restricts = 1 /\ r.notice = <<"mute">>]_vars
C33_EscalationOrder == C33_ResetOnlyAfterRestrict /\ C33_NextViolationMutes

\* A restrict call failed at the limit, the counter stayed there, and the user's
\* next violation of that type was muted.
C33_Witness ==
    \E i \in DOMAIN hv : \E j \in DOMAIN hv :
        /\ i < j
        /\ hv[i].warn_type = hv[j].warn_type
        /\ hv[i].new = WarnLimit /\ hv[i].restricts = 0 /\ hv[i].notice = <<>>
        /\ hv[j].new = WarnLimit + 1 /\ hv[j].restricts = 1
        /\ WarnKey(hv[j].warn_type) \notin DOMAIN user_warnings

\* ------------------------------------------------- commands.py: the handlers
\* commands.py has its own is_admin (lines 85-96), the same test as the one of
\* moderation.py: a super admin, or listed by get_chat_administrators; `reported`
\* is what the lookup gave, and a failed lookup (line 94) gives nobody.
AnyoneIsAdmin(user_id, reported) == TRUE

command_is_admin(user_id, reported) == user_id \in ADMIN_IDS_SET \/ reported

\* parse_duration, lines 28-48: digits, optional blanks, a unit, end of text; the
\* result in minutes, -1 for None. The texts are lists of pieces.
DurationTexts ==
    {<<>>, <<"soon">>, <<"0", "min">>, <<"1", " ", "min">>, <<"1", "hr">>, <<"1", "min", "!">>}
Digits == [d \in {"0", "1"} |-> IF d = "0" THEN 0 ELSE 1]
UnitMinutes(unit) ==
    IF unit \in {"min", "mins", "minute", "minutes", "m"} THEN 1
    ELSE IF unit \in {"hr", "hrs", "hour", "hours", "h"} THEN 60
    ELSE IF unit \in {"day", "days", "d"} THEN 1440
    ELSE 0
parse_duration(text) ==
    LET rest == IF Len(text) >= 2 /\ text[2] = " " THEN <<text[1]>> \o SubSeq(text, 3, Len(text))
                ELSE text
    IN IF Len(rest) = 2 /\ rest[1] \in DOMAIN Digits /\ UnitMinutes(rest[2]) > 0
       THEN Digits[rest[1]] * UnitMinutes(rest[2])
       ELSE -1

\* "if not duration" (lines 213, 335, 378): None, and timedelta(0) too.
Falsy(duration) == duration = -1 \/ duration = 0

\* The commands registered in bot.py lines 76-89 that are modelled.
Commands ==
    {"pin", "kick", "ban", "silent", "addblacklist", "removeblacklist",
     "antibot", "antilink", "antiword"}

\* The dispatcher hands a command message of a group to its handler: the sender,
\* whether the platform has them as an administrator of the group (listed), and
\* what get_chat_administrators will report to is_admin: a failed lookup (commands.py
\* line 94) reports nobody.
Senders ==
    {[user |-> 7, listed |-> FALSE, lookup_failed |-> FALSE],   \* a member
     [user |-> 7, listed |-> TRUE, lookup_failed |-> FALSE],    \* a group admin
     [user |-> 7, listed |-> TRUE, lookup_failed |-> TRUE],     \* a group admin, lookup fails
     [user |-> 9, listed |-> FALSE, lookup_failed |-> TRUE]}    \* a super admin
command_update ==
    /\ cmd.state # "received"
    /\ \E name \in Commands, sender \in Senders :
          cmd' = [CmdNone EXCEPT !.state = "received", !.name = name,
                                 !.user = sender.user, !.listed = sender.listed,
                                 !.reported = sender.listed /\ ~sender.lookup_failed]
    /\ UNCHANGED <<schedVars, warnVars, joinVars, msgVars>>

\* The handler of `name` has the update, and its is_admin test has passed.
Handles(name) ==
    /\ cmd.state = "received" /\ cmd.name = name
    /\ command_is_admin(cmd.user, cmd.reported)

\* The handler has returned; `call` is the moderation call that worked, if any.
Done(call, duration) ==
    cmd' = [cmd EXCEPT !.state = "done", !.call = call, !.duration = duration, !.at = now]

\* Every handler's "if not await is_admin(...)" branch (lines 163, 195, 245, 270,
\* 295, 321, 365, 412, 449, 520, 585, 621): a reply or the deletion of the command
\* message, then return.
refuse_command ==
    /\ cmd.state = "received"
    /\ ~command_is_admin(cmd.user, cmd.reported)
    /\ cmd' = [cmd EXCEPT !.state = "refused"]
    /\ UNCHANGED <<schedVars, warnVars, joinVars, msgVars>>

\* pin_command, lines 359-405, for an admin.
pin_command(chat_id) ==
    /\ Handles("pin")
    /\ \E has_reply \in BOOLEAN, text \in DurationTexts, target_id \in Targets :
       LET duration == parse_duration(text) IN
       \/ \* lines 369-380: no reply, or no duration: the command is deleted, return
          /\ ~has_reply \/ Falsy(duration)
          /\ NoFault
          /\ Done("none", duration)
          /\ UNCHANGED <<scheduled_jobs, next_id>>
       \/ \* line 383: pin_chat_message fails, caught at line 400
          /\ has_reply /\ ~Falsy(duration)
          /\ Fault
          /\ Done("none", duration)
          /\ UNCHANGED <<scheduled_jobs, next_id>>
       \/ \* lines 383-398: pinned, the unpin job stored
          /\ has_reply /\ ~Falsy(duration)
          /\ next_id <= MaxJobs
          /\ NoFault
          /\ scheduled_jobs' = add_job(scheduled_jobs, next_id, "unpin", chat_id,
                                       target_id, now + duration)
          /\ next_id' = next_id + 1
          /\ Done("pin", duration)
       \/ \* lines 391-397: pinned, add_job fails (returns False, or cannot connect
          \* and is caught and logged at line 400-401): the pin stays
          /\ has_reply /\ ~Falsy(duration)
          /\ Fault
          /\ Done("pin", duration)
          /\ UNCHANGED <<scheduled_jobs, next_id>>
    /\ UNCHANGED <<now, pc, tx_rows, jobs_to_run, hist, api_calls, pass_calls>>
    /\ UNCHANGED <<warnVars, joinVars, msgVars>>

\* kick_command, lines 157-187, for an admin: a short ban of the user replied to.
kick_command(chat_id) ==
    /\ Handles("kick")
    /\ \E has_reply \in BOOLEAN :
       \/ ~has_reply /\ NoFault /\ Done("none", -1)     \* lines 166-168
       \/ has_reply /\ NoFault /\ Done("ban", -1)       \* lines 175-183
       \/ has_reply /\ Fault /\ Done("none", -1)        \* ban_chat_member fails, 185-187
    /\ UNCHANGED <<scheduled_jobs, next_id, now, pc, tx_rows, jobs_to_run, hist,
                   api_calls, pass_calls>>
    /\ UNCHANGED <<warnVars, joinVars, msgVars>>

\* The moderation call of ban_command and silent_command: with no argument the
\* ban or mute is permanent (duration None), with one it must parse (lines 205-215
\* and 327-337).
Sanction(call) ==
    \E has_reply \in BOOLEAN, text \in DurationTexts :
       LET duration == IF text = <<>> THEN -1 ELSE parse_duration(text)
           usage == ~has_reply \/ (text # <<>> /\ Falsy(duration))
       IN \/ usage /\ NoFault /\ Done("none", duration)
          \/ ~usage /\ NoFault /\ Done(call, duration)
          \/ ~usage /\ Fault /\ Done("none", duration)

\* ban_command, lines 189-235, for an admin.
ban_command(chat_id) ==
    /\ Handles("ban")
    /\ Sanction("ban")
    /\ UNCHANGED <<scheduled_jobs, next_id, now, pc, tx_rows, jobs_to_run, hist,
                   api_calls, pass_calls>>
    /\ UNCHANGED <<warnVars, joinVars, msgVars>>

\* silent_command, lines 316-357, for an admin.
silent_command(chat_id) ==
    /\ Handles("silent")
    /\ Sanction("restrict")
    /\ UNCHANGED <<scheduled_jobs, next_id, now, pc, tx_rows, jobs_to_run, hist,
                   api_calls, pass_calls>>
    /\ UNCHANGED <<warnVars, joinVars, msgVars>>

CmdNext ==
    \/ command_update
    \/ refuse_command
    \/ \E c \in Chats : pin_command(c)
    \/ \E c \in Chats : kick_command(c)
    \/ \E c \in Chats : ban_command(c)
    \/ \E c \in Chats : silent_command(c)
    \/ \E c \in Chats, term \in TypedTerms :
          Handles("addblacklist") /\ add_blacklist_command(c, term) /\ Done("none", -1)
    \/ \E c \in Chats, term \in TypedTerms :
          Handles("removeblacklist") /\ remove_blacklist_command(c, term) /\ Done("none", -1)
    \/ \E c \in Chats, on \in BOOLEAN :
          Handles("antibot") /\ antibot_command(c, on) /\ Done("none", -1)
    \/ \E c \in Chats, action \in LinkActions, arg \in TypedUrls :
          Handles("antilink") /\ antilink_command(c, action, arg) /\ Done("none", -1)
    \/ \E c \in Chats, action \in WordActions, word \in TypedWords :
          Handles("antiword") /\ antiword_command(c, action, word) /\ Done("none", -1)

CmdSpec == SchedInit /\ [][CmdNext]_vars

\* A handler has just returned.
CmdStep == cmd.state = "received" /\ cmd'.state = "done"

\* C34: after pin_command has completed for an admin with a valid duration, the
\* message is pinned only if scheduled_jobs holds an unpin job for (chat, message)
\* with run_at = pin time + duration: no pinned message is left without its job.
C34_PinHasUnpinJob ==
    [][(CmdStep /\ cmd'.name = "pin" /\ cmd'.call = "pin") =>
          \E j \in scheduled_jobs' :
              /\ j.job_type = "unpin" /\ j.chat_id \in Chats /\ j.target_id \in Targets
              /\ j.run_at = cmd'.at + cmd'.duration]_vars

\* C35: handle_message triggers at most one violation per message: a run handles
\* at most one violation, and a message that holds both a stored antiword term and
\* a link the allow-list does not permit, with both filters on, is handled once as
\* an antiword violation: one handle_violation run with one deletion attempt, the
\* antiword count one higher, and the user's antilink counter as it was.
C35_AtMostOneRun ==
    [][MsgStep => Len(hv') <= Len(hv) + 1]_vars
C35_WordWins ==
    [][(/\ Filtered
        /\ get_group_settings(group_settings, 1).antiword_enabled
        /\ get_group_settings(group_settings, 1).antilink_enabled
        /\ \E word \in get_antiword_list(antiword_blacklist, 1) :
               IsSubstring(word, LowerText(msg'.text))
        /\ has_link(msg'.text, msg'.entities)
        /\ ~\E d \in get_antilink_whitelist(antilink_whitelist, 1) :
               IsSubstring(d, text_to_check_links(msg'.text, msg'.entities))) =>
          LET link == WarnKey("antilink")
              word == WarnKey("antiword")
          IN /\ Violation("antiword")
             /\ hv'[Len(hv')].new = get_user_warnings(user_warnings, word) + 1
             /\ link \in DOMAIN user_warnings' <=> link \in DOMAIN user_warnings
             /\ get_user_warnings(user_warnings', link) = get_user_warnings(user_warnings, link)]_vars
C35_OneViolationPerMessage == C35_AtMostOneRun /\ C35_WordWins

\* A member posted "Spammer" carrying a link entity while "spam" was a stored
\* antiword, both filters were on and the allow-list was empty: the message was
\* handled once, as an antiword violation.
C35_Witness ==
    /\ msg.n = 1 /\ msg.failure = "none" /\ msg.author = 7 /\ ~msg.reported
    /\ msg.text = <<"Spam", "mer">>
    /\ \E i \in DOMAIN msg.entities : msg.entities[i].type \in LinkTypes
    /\ get_antiword_list(antiword_blacklist, 1) = {<<"spam">>}
    /\ get_antilink_whitelist(antilink_whitelist, 1) = {}
    /\ get_group_settings(group_settings, 1).antiword_enabled
    /\ get_group_settings(group_settings, 1).antilink_enabled
    /\ msg.violation = "antiword"
    /\ Len(hv) = 1 /\ hv[1].warn_type = "antiword"
    /\ WarnKey("antilink") \notin DOMAIN user_warnings

\* C36: in one pass of process_jobs the failure of a job's platform call does not
\* keep the rest of the list from being processed. A call is made for the job at
\* the head of the list only and leaves the table alone; after a call that worked
\* or was refused the instance goes on to delete that job's row, after a call that
\* failed otherwise it goes on to the next job (or ends the pass after the last);
\* a deletion in which the store does not fail removes that job's row and no
\* other, and the loop goes on with the next job.
C36_CallThenGoOn ==
    [][\A w \in Workers :
          (pc[w] = "loop" /\ pass_calls'[w] # pass_calls[w]) =>
              LET job == Head(jobs_to_run[w])
                  rest == Tail(jobs_to_run[w])
              IN /\ pass_calls'[w] = Append(pass_calls[w], job.id)
                 /\ scheduled_jobs' = scheduled_jobs
                 /\ \/ /\ pc'[w] \in {"del_ok", "del_refused"}
                       /\ jobs_to_run'[w] = jobs_to_run[w]
                       /\ faults' = faults
                    \/ /\ faults' # faults
                       /\ jobs_to_run'[w] = rest
                       /\ pc'[w] = IF rest = <<>> THEN "sleep" ELSE "loop"]_vars
C36_DeleteOwnRow ==
    [][\A w \in Workers :
          (/\ pc[w] \in {"del_ok", "del_refused"}
           /\ jobs_to_run'[w] # jobs_to_run[w] /\ faults' = faults) =>
              LET job == Head(jobs_to_run[w])
                  rest == Tail(jobs_to_run[w])
              IN /\ scheduled_jobs' = {j \in scheduled_jobs : j.id # job.id}
                 /\ jobs_to_run'[w] = rest
                 /\ pc'[w] = IF rest = <<>> THEN "sleep" ELSE "loop"]_vars
C36_FailureDoesNotEndPass == C36_CallThenGoOn /\ C36_DeleteOwnRow

\* An instance has ended a pass of two jobs: the call for the first failed with a
\* transient error and its row is still stored, the second was called after it
\* and its row is gone.
C36_Witness ==
    \E w \in Workers :
        /\ pc[w] = "sleep"
        /\ Len(pass_calls[w]) = 2
        /\ "transient" \in hist[pass_calls[w][1]]
        /\ pass_calls[w][1] \in RowIds
        /\ hist[pass_calls[w][2]] \cap {"ok", "refused"} # {}
        /\ pass_calls[w][2] \notin RowIds

\* C37: a command from a principal for whom is_admin is false (no super admin, and
\* not reported by the platform's administrator list, which is the case too when the
\* list cannot be fetched) changes no table of the store (settings, blacklist,
\* antiword list, allow-list, scheduled_jobs, warnings) and makes no ban, mute or pin.
C37_NonAdminChangesNothing ==
    [][(cmd.state = "received" /\ cmd.user \notin ADMIN_IDS_SET /\ ~cmd.reported) =>
          /\ UNCHANGED <<group_settings, blacklist, antiword_blacklist, antilink_whitelist,
                         scheduled_jobs, user_warnings>>
          /\ cmd'.call = "none"
          /\ cmd'.state \in {"received", "refused"}]_vars

\* A group administrator whose lookup failed sent /removeblacklist while the
\* blacklist held a term, and was refused.
C37_Witness ==
    /\ cmd.state = "refused" /\ cmd.name = "removeblacklist"
    /\ cmd.user \notin ADMIN_IDS_SET /\ cmd.listed /\ ~cmd.reported
    /\ blacklist # {}

\* ----------------------------------- commands.py: /antilink and its argument
\* Ways an admin may type the one domain example.com: bare, with www., with a
\* scheme, with a path, in lower and upper case.
UrlSpellings ==
    {<<"example", ".", "com">>,
     <<"www.", "Example", ".", "com", "/x">>,
     <<"https://", "example", ".", "com">>,
     <<"http://", "www.", "example", ".", "com">>,
     <<"WWW.", "example", ".", "com">>,
     <<"HTTP://", "example", ".", "com">>}

\* antilink_command by an admin, with what was typed kept in cmd.
antilink_typed(chat_id) ==
    \E action \in LinkActions, arg \in UrlSpellings :
        /\ antilink_command(chat_id, action, arg)
        /\ cmd' = [CmdNone EXCEPT !.state = "done", !.name = "antilink",
                                  !.action = action, !.arg = arg]

UrlNext == \E c \in Chats : antilink_typed(c)

UrlSpec == SchedInit /\ [][UrlNext]_vars

\* C38: whatever the spelling of the URL given to "/antilink allow" (with or
\* without scheme, www. and path, in any letter case), the row written is the
\* lower-cased domain without "www.": after allow the table is the old one plus
\* the row example.com, and "/antilink disallow" with any spelling takes that row
\* out, so that the group never holds another row for the domain.
C38_OneRowPerDomain ==
    [][/\ cmd'.action = "allow" =>
             antilink_whitelist' = antilink_whitelist \cup {<<1, ExampleDomain>>}
       /\ cmd'.action = "disallow" =>
             antilink_whitelist' = antilink_whitelist \ {<<1, ExampleDomain>>}]_vars
====
